---- MODULE Spec2Model ----
(***************************************************************************)
(* Model of the grounded generation pipeline of PDA: the generation-job    *)
(* store, the two request handlers that create jobs, the two background    *)
(* drivers (_run_generation_task, _run_pipeline), the fact-sheet           *)
(* extractor's JSON repair loop and the draft guardrail pass.              *)
(*                                                                         *)
(* The specifications share the variables:                                 *)
(*   SpecJobs         job store + handlers + drivers                       *)
(*   SpecExtract      extract_product_fact_sheet                           *)
(*   SpecExtractLive  the same, the call running to its end                *)
(*   SpecGuard        run_draft_guardrails run twice over a draft bundle   *)
(*   SpecKeySpec      run_draft_guardrails on a field stating one key spec *)
(*   SpecContext      _build_context and _chunks_from_store                *)
(*   SpecCite         _generate_faq: context, completion, evidence records *)
(*   SpecVerifier     run_verifier_factsheet                               *)
(*   SpecGate         the commands that run the verifier and write files   *)
(*   SpecStore        the job store called by a client                     *)
(*   SpecContradiction  run_verifier_factsheet, key specs sharing a name   *)
(*   SpecFindings     run_verifier_audit_pipeline over audit findings      *)
(*   SpecGenerate     one generate_web_content call                        *)
(*                                                                         *)
(* Store operations (create / get / get_by_idempotency_key / update) are   *)
(* taken as atomic steps; request handlers are `async def` bodies without  *)
(* an await between lookup and create, so each handler is one step of the  *)
(* event loop, while drivers run in worker threads and interleave with     *)
(* handlers and with each other between two store operations.              *)
(***************************************************************************)
EXTENDS Integers, Sequences, FiniteSets, TLC

VARIABLES
    backend,       \* "file" | "postgres": which JobStore get_job_store() built
    jobs,          \* job_id -> persisted GenerationJob (NoJob when absent)
    index,         \* FileJobStore._index: idempotency_key -> job_id (0: no entry)
    nextId,        \* next job id _new_job_id() hands out
    projects,      \* project directories that exist (and hold a PDF)
    files,         \* project -> the job whose extraction wrote factsheet.json (0: no file)
    task,          \* job_id -> background driver invocation state
    lastResponse,  \* reply of the latest request handler call
    ex,            \* state of one extract_product_fact_sheet call
    gd,            \* drafts, fact sheet and warnings of the guardrail runs
    rag,           \* retrieval context and evidence of one generation call
    audit          \* fact sheet, verifier report and artifacts of one audit

vars == <<backend, jobs, index, nextId, projects, files, task, lastResponse, ex, gd, rag, audit>>

----------------------------------------------------------------------------
(* Bounds *)

MaxJobs == 2    \* job records the handlers may create

----------------------------------------------------------------------------
(* Job records: pda/jobs/models.py *)

JobStatus == {"queued", "running", "succeeded", "failed"}

InFlight == {"queued", "running"}

Terminal == {"succeeded", "failed"}

JobIds == 1..MaxJobs

Products == {"p1"}

\* no project holds a factsheet.json
NoFiles == [p \in Products |-> 0]

Tones == {"neutral"}

Providers == {"default", "openai"}

\* The request fields that enter the idempotency key.  tone, length, audience
\* and llm_model are held at one value each.
Requests == [tone : Tones, length : {"medium"}, audience : {"ops_manager"},
             llm_provider : Providers, llm_model : {"default"}]

NoMeta == [stage |-> "none", has_factsheet |-> FALSE, has_audit |-> FALSE,
           has_content |-> FALSE]

QueuedMeta == [stage |-> "queued", has_factsheet |-> FALSE, has_audit |-> FALSE,
               has_content |-> FALSE]

NoJob == [job_id |-> 0, product_id |-> "none", idempotency_key |-> <<>>,
          status |-> "none", progress |-> 0, error_message |-> "none",
          drafts |-> "none", metadata |-> NoMeta]

GenerationJob(id, product, key, meta) ==
    [job_id |-> id, product_id |-> product, idempotency_key |-> key,
     status |-> "queued", progress |-> 0, error_message |-> "none",
     drafts |-> "none", metadata |-> meta]

\* sha256("product|tone|length|audience|provider|model")[:32], modelled as the
\* tuple of the hashed fields (the hash is taken as collision free).
IdempotencyKey(product, request) ==
    <<product, request.tone, request.length, request.audience,
      request.llm_provider, request.llm_model>>

\* f"pipeline-{project_id}"
PipelineKey(product) == <<"pipeline-", product>>

ContentKeys == {IdempotencyKey(p, r) : p \in Products, r \in Requests}

AllKeys == ContentKeys \cup {PipelineKey(p) : p \in Products}

----------------------------------------------------------------------------
(* Job store: pda/jobs/store.py *)

Max(S) == CHOOSE x \in S : \A y \in S : y <= x

StoreGet(id) == jobs[id]

\* FileJobStore.get_by_idempotency_key: whatever job the index names.
FileGetByKey(key) ==
    IF index[key] = 0 THEN NoJob ELSE StoreGet(index[key])

\* PostgresJobStore.get_by_idempotency_key:
\* WHERE idempotency_key = key AND status IN ('queued','running')
\* ORDER BY created_at DESC LIMIT 1   (ids are handed out in creation order)
PgGetByKey(key) ==
    LET rows == {j \in JobIds : /\ jobs[j].idempotency_key = key
                                /\ jobs[j].status \in InFlight}
    IN  IF rows = {} THEN NoJob ELSE jobs[Max(rows)]

\* A lookup that finds nothing (the index entry or the row is missed).
GetByIdempotencyKeyMiss(key) == NoJob

GetByIdempotencyKey(key) ==
    IF backend = "file" THEN FileGetByKey(key) ELSE PgGetByKey(key)

\* create(job): insert the row / write the file; the file store also
\* points its index entry for the key at the new job.
StoreCreate(job) ==
    /\ jobs' = [jobs EXCEPT ![job.job_id] = job]
    /\ index' = IF backend = "file"
                THEN [index EXCEPT ![job.idempotency_key] = job.job_id]
                ELSE index

\* FileJobStore.update: the whole record is written over the file.
FileUpdated(job) == job

\* PostgresJobStore.update: status, progress, error_message are set; drafts and
\* metadata are COALESCE(new, stored).
PgUpdated(job) ==
    LET old == jobs[job.job_id]
    IN  IF old = NoJob THEN old ELSE
        [old EXCEPT !.status = job.status,
                    !.progress = job.progress,
                    !.error_message = job.error_message,
                    !.drafts = IF job.drafts = "none" THEN old.drafts ELSE job.drafts,
                    !.metadata = IF job.metadata = NoMeta THEN old.metadata
                                 ELSE job.metadata]

StoreUpdate(job) ==
    jobs' = [jobs EXCEPT ![job.job_id] =
                IF backend = "file" THEN FileUpdated(job) ELSE PgUpdated(job)]

----------------------------------------------------------------------------
(* Background task bookkeeping *)

\* kind: which driver function the task runs; pc: where it stands; job: the
\* driver's local GenerationJob object; raised: a step of this invocation
\* raised an error; step: the pipeline step the driver stands at.  Once the
\* driver function has returned its locals are gone (Returned).
IdleTask == [kind |-> "none", pc |-> "idle", job |-> NoJob, raised |-> FALSE,
             step |-> 0]

Returned(raised) == [IdleTask EXCEPT !.pc = "done", !.raised = raised]

\* The handler that creates a job decides which driver runs it; the two
\* handlers use keys of different shapes.
JobKind(job) == IF Len(job.idempotency_key) = 6 THEN "generate" ELSE "pipeline"

\* The reply of a handler: the job_id it returns (0: an HTTP error, no job).
NoResponse == [job_id |-> 0]

Reply(id) == [job_id |-> id]

\* background_tasks.add_task(driver, job_id, ...)
AddTask(id, kind) ==
    task' = [task EXCEPT ![id] = [IdleTask EXCEPT !.kind = kind,
                                                  !.pc = "scheduled"]]

\* In-flight jobs created by generate-content for the same
\* (product_id, tone, length, audience), whatever their llm fields.
SameParamsInFlight(product, request) ==
    {j \in JobIds : /\ jobs[j].status \in InFlight
                    /\ Len(jobs[j].idempotency_key) = 6
                    /\ SubSeq(jobs[j].idempotency_key, 1, 4) =
                         <<product, request.tone, request.length, request.audience>>}

KeyInFlight(key) ==
    {j \in JobIds : jobs[j].status \in InFlight /\ jobs[j].idempotency_key = key}

----------------------------------------------------------------------------
(* Request handlers *)

\* POST /products/{product_id}/generate-content, rejected before the lookup:
\* 404 when the project directory is missing, 400/500 when _resolve_llm raises.
GenerateContentRejected(product, request) ==
    /\ lastResponse' = NoResponse
    /\ UNCHANGED <<backend, files, jobs, index, nextId, projects, task, ex, gd, rag, audit>>

\* generate-content: an in-flight job under the key is handed back.
GenerateContentExisting(product, request) ==
    LET key == IdempotencyKey(product, request)
        existing == GetByIdempotencyKey(key)
    IN  /\ product \in projects
        /\ existing # NoJob
        /\ existing.status \in InFlight
        /\ lastResponse' = Reply(existing.job_id)
        /\ UNCHANGED <<backend, files, jobs, index, nextId, projects, task, ex, gd, rag, audit>>

\* generate-content: no in-flight job under the key, so a QUEUED job is
\* created and its driver scheduled.
GenerateContentCreate(product, request) ==
    LET key == IdempotencyKey(product, request)
        existing == GetByIdempotencyKey(key)
    IN  /\ product \in projects
        /\ ~(existing # NoJob /\ existing.status \in InFlight)
        /\ nextId <= MaxJobs
        /\ StoreCreate(GenerationJob(nextId, product, key, NoMeta))
        /\ AddTask(nextId, "generate")
        /\ nextId' = nextId + 1
        /\ lastResponse' = Reply(nextId)
        /\ UNCHANGED <<backend, files, projects, ex, gd, rag, audit>>

\* POST /pipeline: saves the PDF into the project directory, then always
\* creates a new job under the key pipeline-<project_id>.
StartPipeline(product) ==
    /\ nextId <= MaxJobs
    /\ projects' = projects \cup {product}
    /\ StoreCreate(GenerationJob(nextId, product, PipelineKey(product), QueuedMeta))
    /\ AddTask(nextId, "pipeline")
    /\ nextId' = nextId + 1
    /\ lastResponse' = Reply(nextId)
    /\ UNCHANGED <<backend, files, ex, gd, rag, audit>>

\* start_pipeline rejected after the PDF was saved: _resolve_llm raised.
StartPipelineRejected(product) ==
    /\ projects' = projects \cup {product}
    /\ lastResponse' = NoResponse
    /\ UNCHANGED <<backend, files, jobs, index, nextId, task, ex, gd, rag, audit>>

----------------------------------------------------------------------------
(* Background drivers: entry check shared by both *)

\* An entry check that lets a FAILED job run again.
ShouldRunUnlessSucceeded(job) == job # NoJob /\ job.status # "succeeded"

\* An entry check that only looks for the record (`if not job: return`).
ShouldRunIfFound(job) == job # NoJob

\* `if not job or job.status not in (QUEUED, RUNNING): return`
ShouldRun(job) == job # NoJob /\ job.status \in InFlight

SetTask(j, t) == task' = [task EXCEPT ![j] = t]

Entered(j, kind) ==
    [IdleTask EXCEPT !.kind = kind, !.pc = "start", !.job = StoreGet(j), !.step = 1]

\* The driver function is called for j: by the background task add_task
\* scheduled, or once more after an earlier invocation for j has returned or
\* died (the id of a job that exists, or an id the store has no record of).
Invoked(j) == task[j].pc \in {"scheduled", "idle", "done", "crashed"}

KindOf(j) == IF task[j].pc = "scheduled" THEN task[j].kind
             ELSE JobKind(StoreGet(j))

\* The driver starts, finds its job QUEUED or RUNNING and goes on.
DriverEnter(j) ==
    /\ Invoked(j)
    /\ ShouldRun(StoreGet(j))
    /\ SetTask(j, Entered(j, KindOf(j)))
    /\ UNCHANGED <<backend, jobs, index, nextId, projects, files, lastResponse, ex, gd, rag, audit>>

\* The driver starts and returns at once: no record, or a terminal one.
DriverSkip(j) ==
    /\ Invoked(j)
    /\ ~ShouldRun(StoreGet(j))
    /\ SetTask(j, Returned(FALSE))
    /\ UNCHANGED <<backend, jobs, index, nextId, projects, files, lastResponse, ex, gd, rag, audit>>

\* One store.update(job) by the driver of j, which then goes on at pc.
DriverUpdate(j, job, pc, step) ==
    /\ StoreUpdate(job)
    /\ SetTask(j, [task[j] EXCEPT !.job = job, !.pc = pc, !.step = step])
    /\ UNCHANGED <<backend, index, nextId, projects, lastResponse, ex, gd, rag, audit>>

\* The last store.update(job) of the driver of j, which then returns.
DriverFinish(j, job, raised) ==
    /\ StoreUpdate(job)
    /\ SetTask(j, Returned(raised))
    /\ UNCHANGED <<backend, index, nextId, projects, lastResponse, ex, gd, rag, audit>>

\* The driver dies with an error no except clause catches.
DriverCrash(j) ==
    /\ SetTask(j, [IdleTask EXCEPT !.pc = "crashed", !.raised = TRUE])
    /\ UNCHANGED <<backend, jobs, index, nextId, projects, files, lastResponse, ex, gd, rag, audit>>

\* `with open(factsheet_path, "w") as f: json.dump(sheet.model_dump(), f)`
\* by the driver of j: the file of the project now holds j's fact sheet.
WriteFactsheet(product, j) == files' = [files EXCEPT ![product] = j]

----------------------------------------------------------------------------
(* _run_generation_task: backend/routes/web_content.py *)

ContentMeta == [stage |-> "content_metadata", has_factsheet |-> FALSE,
                has_audit |-> FALSE, has_content |-> FALSE]

\* What can stop the setup between the RUNNING update and progress 30.
GenSetupFailures == {"project_not_found", "setup_error"}

\* job.status = RUNNING; job.progress = 10; store.update(job)
GenStart(j) ==
    /\ task[j].kind = "generate" /\ task[j].pc = "start"
    /\ DriverUpdate(j, [task[j].job EXCEPT !.status = "running", !.progress = 10],
                    "g_setup", 1)
    /\ UNCHANGED files

\* Project directory gone, _resolve_llm raised, _get_or_build_store raised, or
\* _load_or_extract_factsheet raised RuntimeError (the extraction failed, or
\* it wrote factsheet.json and the write of the provenance file failed):
\* FAILED is written.
GenSetupFail(j, reason) ==
    /\ task[j].kind = "generate" /\ task[j].pc = "g_setup"
    /\ DriverFinish(j, [task[j].job EXCEPT
                           !.status = "failed", !.error_message = reason,
                           !.progress = IF reason = "project_not_found" THEN 0 ELSE @],
                    reason # "project_not_found")
    /\ \E wrote \in BOOLEAN :
         IF wrote /\ reason = "setup_error" /\ files[task[j].job.product_id] = 0
         THEN WriteFactsheet(task[j].job.product_id, j)
         ELSE UNCHANGED files

\* load_factsheet on an existing factsheet.json raises (not a RuntimeError):
\* no except clause of the driver matches.
GenSetupCrash(j) ==
    /\ task[j].kind = "generate" /\ task[j].pc = "g_setup"
    /\ DriverCrash(j)

\* _load_or_extract_factsheet loads factsheet.json, or extracts and writes
\* it when the project has none; job.progress = 30; store.update(job)
GenSetupOk(j) ==
    /\ task[j].kind = "generate" /\ task[j].pc = "g_setup"
    /\ DriverUpdate(j, [task[j].job EXCEPT !.progress = 30], "g_generate", 1)
    /\ IF files[task[j].job.product_id] = 0
       THEN WriteFactsheet(task[j].job.product_id, j)
       ELSE UNCHANGED files

\* generate_web_content raised: FAILED is written.
GenGenerateFail(j) ==
    /\ task[j].kind = "generate" /\ task[j].pc = "g_generate"
    /\ DriverFinish(j, [task[j].job EXCEPT !.status = "failed",
                                           !.error_message = "generation"],
                    TRUE)
    /\ UNCHANGED files

\* progress 100, SUCCEEDED, drafts and metadata set, error_message cleared.
GenGenerateOk(j) ==
    /\ task[j].kind = "generate" /\ task[j].pc = "g_generate"
    /\ DriverFinish(j, [task[j].job EXCEPT !.status = "succeeded", !.progress = 100,
                                           !.drafts = "drafts",
                                           !.metadata = ContentMeta,
                                           !.error_message = "none"],
                    FALSE)
    /\ UNCHANGED files

----------------------------------------------------------------------------
(* _run_pipeline: backend/routes/pipeline.py *)

\* The driver's steps in order.  After step k succeeds the driver calls
\* _update_stage with the progress, stage and flags of row k; `fails`: an error
\* of the step is caught and handed to _fail; `crashes`: the step holds a call
\* outside every try block (classify_document / tag_chunks in "ingest").
PipeSteps == <<
    [name |-> "llm",            progress |-> 5,  stage |-> "ingest",
     has_factsheet |-> FALSE, has_audit |-> FALSE, fails |-> TRUE,  crashes |-> FALSE],
    [name |-> "ingest",         progress |-> 12, stage |-> "ingest",
     has_factsheet |-> FALSE, has_audit |-> FALSE, fails |-> TRUE,  crashes |-> TRUE],
    [name |-> "index",          progress |-> 18, stage |-> "factsheet",
     has_factsheet |-> FALSE, has_audit |-> FALSE, fails |-> TRUE,  crashes |-> FALSE],
    [name |-> "extract",        progress |-> 32, stage |-> "factsheet",
     has_factsheet |-> TRUE,  has_audit |-> FALSE, fails |-> TRUE,  crashes |-> FALSE],
    [name |-> "audit_begin",    progress |-> 35, stage |-> "audit",
     has_factsheet |-> TRUE,  has_audit |-> FALSE, fails |-> FALSE, crashes |-> FALSE],
    [name |-> "legacy_extract", progress |-> 42, stage |-> "audit",
     has_factsheet |-> TRUE,  has_audit |-> FALSE, fails |-> TRUE,  crashes |-> FALSE],
    [name |-> "simulate",       progress |-> 50, stage |-> "audit",
     has_factsheet |-> TRUE,  has_audit |-> FALSE, fails |-> TRUE,  crashes |-> FALSE],
    [name |-> "gap_verify",     progress |-> 58, stage |-> "audit",
     has_factsheet |-> TRUE,  has_audit |-> FALSE, fails |-> TRUE,  crashes |-> FALSE],
    [name |-> "reports",        progress |-> 65, stage |-> "audit",
     has_factsheet |-> TRUE,  has_audit |-> TRUE,  fails |-> TRUE,  crashes |-> FALSE],
    [name |-> "content_begin",  progress |-> 68, stage |-> "content",
     has_factsheet |-> TRUE,  has_audit |-> TRUE,  fails |-> FALSE, crashes |-> FALSE],
    [name |-> "content",        progress |-> 100, stage |-> "done",
     has_factsheet |-> TRUE,  has_audit |-> TRUE,  fails |-> TRUE,  crashes |-> FALSE] >>

LastStep == Len(PipeSteps)

\* _update_stage: progress, status RUNNING and the stage metadata are set on
\* the local job, which is then written.
UpdateStage(job, row) ==
    [job EXCEPT !.progress = row.progress, !.status = "running",
                !.metadata = [stage |-> row.stage,
                              has_factsheet |-> row.has_factsheet,
                              has_audit |-> row.has_audit,
                              has_content |-> FALSE]]

\* A _fail that starts the progress over.
FailResettingProgress(job, message) ==
    [job EXCEPT !.status = "failed", !.error_message = message, !.progress = 0]

\* A _fail that also stores what the failing stage had produced.
FailWithDrafts(job, message) ==
    [job EXCEPT !.status = "failed", !.error_message = message, !.drafts = "drafts"]

\* _fail: status FAILED and the message are set; progress and metadata stay.
Fail(job, message) ==
    [job EXCEPT !.status = "failed", !.error_message = message]

PipeAt(j) == /\ task[j].kind = "pipeline"
             /\ task[j].pc \in {"start", "pipe"}

\* Step k went through and the driver reports the next stage; the
\* extract step has written factsheet.json.
PipeStepOk(j) ==
    /\ PipeAt(j) /\ task[j].step < LastStep
    /\ DriverUpdate(j, UpdateStage(task[j].job, PipeSteps[task[j].step]),
                    "pipe", task[j].step + 1)
    /\ IF PipeSteps[task[j].step].name = "extract"
       THEN WriteFactsheet(task[j].job.product_id, j)
       ELSE UNCHANGED files

\* Step k raised inside a try block: _fail, then return.  The extract step
\* can raise after it has written factsheet.json.
PipeStepFail(j) ==
    /\ PipeAt(j) /\ PipeSteps[task[j].step].fails
    /\ DriverFinish(j, Fail(task[j].job, PipeSteps[task[j].step].name), TRUE)
    /\ \E wrote \in BOOLEAN :
         IF wrote /\ PipeSteps[task[j].step].name = "extract"
         THEN WriteFactsheet(task[j].job.product_id, j)
         ELSE UNCHANGED files

\* Step k raised outside every try block.
PipeStepCrash(j) ==
    /\ PipeAt(j) /\ PipeSteps[task[j].step].crashes
    /\ DriverCrash(j)

\* DONE: progress 100, SUCCEEDED, drafts and the final metadata.
PipeSucceed(j) ==
    /\ PipeAt(j) /\ task[j].step = LastStep
    /\ DriverFinish(j, [task[j].job EXCEPT
                           !.progress = 100, !.status = "succeeded",
                           !.error_message = "none", !.drafts = "drafts",
                           !.metadata = [stage |-> "done", has_factsheet |-> TRUE,
                                         has_audit |-> TRUE, has_content |-> TRUE]],
                    FALSE)
    /\ UNCHANGED files

----------------------------------------------------------------------------
(* Idle values of the variables a specification leaves alone *)

ExIdle == [pc |-> "idle"]

GdIdle == [pc |-> "idle"]

RagIdle == [pc |-> "idle"]

AuditIdle == [pc |-> "idle"]

----------------------------------------------------------------------------
(* Specification of the job subsystem *)

InitJobs ==
    /\ backend \in {"file", "postgres"}
    /\ jobs = [j \in JobIds |-> NoJob]
    /\ index = [k \in AllKeys |-> 0]
    /\ nextId = 1
    /\ projects \in SUBSET Products
    /\ files = NoFiles
    /\ task = [j \in JobIds |-> IdleTask]
    /\ lastResponse = NoResponse
    /\ ex = ExIdle
    /\ gd = GdIdle
    /\ rag = RagIdle
    /\ audit = AuditIdle

NextJobs ==
    \/ \E p \in Products, r \in Requests : GenerateContentRejected(p, r)
    \/ \E p \in Products, r \in Requests : GenerateContentExisting(p, r)
    \/ \E p \in Products, r \in Requests : GenerateContentCreate(p, r)
    \/ \E p \in Products : StartPipeline(p)
    \/ \E p \in Products : StartPipelineRejected(p)
    \/ \E j \in JobIds : DriverEnter(j)
    \/ \E j \in JobIds : DriverSkip(j)
    \/ \E j \in JobIds : GenStart(j)
    \/ \E j \in JobIds, reason \in GenSetupFailures : GenSetupFail(j, reason)
    \/ \E j \in JobIds : GenSetupCrash(j)
    \/ \E j \in JobIds : GenSetupOk(j)
    \/ \E j \in JobIds : GenGenerateFail(j)
    \/ \E j \in JobIds : GenGenerateOk(j)
    \/ \E j \in JobIds : PipeStepOk(j)
    \/ \E j \in JobIds : PipeStepFail(j)
    \/ \E j \in JobIds : PipeStepCrash(j)
    \/ \E j \in JobIds : PipeSucceed(j)

SpecJobs == InitJobs /\ [][NextJobs]_vars

----------------------------------------------------------------------------
(* Claims about the job subsystem *)

\* A generate-content call for (p, r) that got past the rejections.
GenerateStep(p, r) == GenerateContentExisting(p, r) \/ GenerateContentCreate(p, r)

\* C1 as stated: a generate-content request that arrives while a job made for
\* the same (product_id, tone, length, audience) is QUEUED or RUNNING gets that
\* job's id back and no record is created.
C1_SameParamsSameJob ==
    [][\A p \in Products, r \in Requests :
         (GenerateStep(p, r) /\ SameParamsInFlight(p, r) # {})
            => (lastResponse'.job_id \in SameParamsInFlight(p, r) /\ jobs' = jobs)]_vars

\* C1 amended: a generate-content request that arrives while a job with the
\* same idempotency key (product_id, tone, length, audience, llm_provider,
\* llm_model) is QUEUED or RUNNING gets that job's id back, no record is
\* created, and that job is the only in-flight record under the key.
C1_SameKeySameJob ==
    [][\A p \in Products, r \in Requests :
         (GenerateStep(p, r) /\ KeyInFlight(IdempotencyKey(p, r)) # {})
            => /\ lastResponse'.job_id \in KeyInFlight(IdempotencyKey(p, r))
               /\ jobs' = jobs
               /\ Cardinality(KeyInFlight(IdempotencyKey(p, r))) = 1]_vars

\* Job 1 is running, job 2 was created after it, and the latest reply handed
\* job 1 back: a duplicate request arrived while job 1 was in flight.
C1_Witness ==
    /\ nextId = 3
    /\ jobs[1].status = "running"
    /\ Len(jobs[1].idempotency_key) = 6
    /\ lastResponse.job_id = 1

\* C2: at most one job record per idempotency key is QUEUED or RUNNING.
C2_OneInFlightPerKey ==
    \A k \in AllKeys : Cardinality(KeyInFlight(k)) <= 1

\* C3: a job whose persisted status is SUCCEEDED or FAILED is never written
\* back to QUEUED or RUNNING.
C3_TerminalStaysTerminal ==
    [][\A j \in JobIds :
         jobs[j].status \in Terminal => jobs'[j].status \notin InFlight]_vars

\* Job 1 is terminal while a later job under the same key is being driven:
\* handlers and drivers have acted after job 1 ended.
C3_Witness ==
    /\ jobs[1].status \in Terminal
    /\ jobs[2].idempotency_key = jobs[1].idempotency_key
    /\ jobs[2].status = "running"
    /\ task[1].pc = "done"

\* C4: every change of a persisted status is QUEUED->RUNNING,
\* RUNNING->SUCCEEDED or RUNNING->FAILED.
C4_OnlyLegalTransitions ==
    [][\A j \in JobIds :
         (jobs[j] # NoJob /\ jobs'[j].status # jobs[j].status)
            => <<jobs[j].status, jobs'[j].status>> \in
                  {<<"queued", "running">>, <<"running", "succeeded">>,
                   <<"running", "failed">>}]_vars

\* C5: get_by_idempotency_key returns a job only if it is QUEUED or RUNNING.
C5_LookupOnlyInFlight ==
    \A k \in AllKeys :
        GetByIdempotencyKey(k) # NoJob => GetByIdempotencyKey(k).status \in InFlight

\* C6: a driver in which a step raised has written FAILED with an error
\* message and has returned.
C6_RaiseMeansFailed ==
    \A j \in JobIds :
        task[j].raised => /\ task[j].pc = "done"
                          /\ jobs[j].status = "failed"
                          /\ jobs[j].error_message # "none"

\* The driver function starts for j: its first statement, store.get, runs.
DriverStarts(j) ==
    /\ Invoked(j)
    /\ task'[j] # task[j]
    /\ task'[j].pc \in {"start", "done"}

\* C7: a driver that starts for a job id whose record is missing or terminal
\* returns at once and leaves the store as it was.
C7_SkipLeavesStore ==
    [][\A j \in JobIds :
         (DriverStarts(j) /\ jobs[j].status \notin InFlight)
            => (task'[j].pc = "done" /\ jobs' = jobs)]_vars

\* A driver has returned for an id the store has no record of, while another
\* job exists.
C7_Witness ==
    \E j \in JobIds : /\ task[j].pc = "done"
                      /\ jobs[j] = NoJob
                      /\ nextId > 1

----------------------------------------------------------------------------
(* Fact-sheet extractor: extract_product_fact_sheet and its repair loop.

   The completion service is a script: script[n] is what the n-th call to
   llm_provider.complete returns.  A raw output records whether it is
   well-formed JSON, the type of its top-level value, what the
   evidence_chunk_ids of its key spec is (a list of ids, an empty list, a
   number), and its product_name (the call
   number, so that outputs of different calls are different texts). *)

MaxRetriesBound == 3

MAX_RETRIES == 2

jobVars == <<backend, jobs, index, nextId, projects, files, task, lastResponse>>

RawOutput(n, shape) ==
    [syntax |-> shape[1], top |-> shape[2], evidence |-> shape[3], product_name |-> n]

\* well-formed object; malformed text; object whose evidence_chunk_ids is a
\* number; well-formed JSON array; object whose evidence_chunk_ids is []
RawShapes ==
    { <<TRUE, "object", "list">>, <<FALSE, "object", "list">>,
      <<TRUE, "object", "int">>, <<TRUE, "list", "list">>,
      <<TRUE, "object", "empty">> }

Scripts(max_retries) ==
    { [n \in 1..(max_retries + 2) |-> RawOutput(n, shapes[n])] :
        shapes \in [1..(max_retries + 2) -> RawShapes] }

NoSheet == [product_name |-> 0, key_specs |-> <<>>]

Raised(exc) == [exc |-> exc, value |-> NoSheet]

Value(v) == [exc |-> "none", value |-> v]

\* json.loads(_strip_code_fence(raw))
ParseJson(raw) ==
    IF raw.syntax
    THEN Value([top |-> raw.top, evidence |-> raw.evidence,
                product_name |-> raw.product_name])
    ELSE Raised("JSONDecodeError")

\* norm_key_specs on the one key spec of the output: name and value are
\* there, `[str(x) for x in (item.get("evidence_chunk_ids") or [])]` keeps the
\* ids the output gives, none when it gives none
NormKeySpec(evidence) ==
    [name |-> "Weight", value |-> "350",
     evidence_chunk_ids |-> IF evidence = "list" THEN <<"c1">> ELSE <<>>]

\* data.get(...) on a non-dict raises AttributeError; iterating a number in
\* `[str(x) for x in (item.get("evidence_chunk_ids") or [])]` raises TypeError
ValidateFactSheet(data) ==
    IF data.top # "object" THEN Raised("AttributeError")
    ELSE IF data.evidence = "int" THEN Raised("TypeError")
    ELSE Value([product_name |-> data.product_name,
                key_specs |-> <<NormKeySpec(data.evidence)>>])

\* the body of the try block: _parse_json then _validate_fact_sheet
TryParse(raw) ==
    IF ParseJson(raw).exc # "none" THEN ParseJson(raw)
    ELSE ValidateFactSheet(ParseJson(raw).value)

\* `except (json.JSONDecodeError, TypeError, KeyError)`
CaughtExceptions == {"JSONDecodeError", "TypeError", "KeyError"}

\* An exhaustion test that allows one fix prompt too many.
RetriesExhaustedLate(attempts, max_retries) == attempts > max_retries + 1

\* `if attempts > max_retries: raise ValueError`
RetriesExhausted(attempts, max_retries) == attempts > max_retries

\* `while attempts <= max_retries`
LoopGuard(attempts, max_retries) == attempts <= max_retries

ExState(max_retries, script) ==
    [pc |-> "start", max_retries |-> max_retries, script |-> script,
     calls |-> 0, attempts |-> 0, last_raw |-> RawOutput(0, <<FALSE, "object", "list">>),
     sheet |-> NoSheet, outcome |-> "running"]

ExEnd(outcome, sheet) ==
    ex' = [ex EXCEPT !.pc = "done", !.outcome = outcome, !.sheet = sheet]

\* `raw = llm_provider.complete(prompt)` and
\* `last_raw = llm_provider.complete(fix_prompt)`
ExComplete ==
    /\ ex.pc \in {"start", "fix"}
    /\ ex.calls < Len(ex.script)
    /\ ex' = [ex EXCEPT !.pc = "loop", !.calls = @ + 1,
                        !.last_raw = ex.script[ex.calls + 1]]
    /\ UNCHANGED <<jobVars, gd, rag, audit>>

\* the try block succeeds: break, build provenance, return the sheet
ExAccept ==
    /\ ex.pc = "loop"
    /\ LoopGuard(ex.attempts, ex.max_retries)
    /\ TryParse(ex.last_raw).exc = "none"
    /\ ExEnd("returned", TryParse(ex.last_raw).value)
    /\ UNCHANGED <<jobVars, gd, rag, audit>>

\* a caught exception with retries left: a fix prompt is rendered
ExRetry ==
    /\ ex.pc = "loop"
    /\ LoopGuard(ex.attempts, ex.max_retries)
    /\ TryParse(ex.last_raw).exc \in CaughtExceptions
    /\ ~RetriesExhausted(ex.attempts + 1, ex.max_retries)
    /\ ex' = [ex EXCEPT !.pc = "fix", !.attempts = @ + 1]
    /\ UNCHANGED <<jobVars, gd, rag, audit>>

\* a caught exception with no retries left: ValueError
ExGiveUp ==
    /\ ex.pc = "loop"
    /\ LoopGuard(ex.attempts, ex.max_retries)
    /\ TryParse(ex.last_raw).exc \in CaughtExceptions
    /\ RetriesExhausted(ex.attempts + 1, ex.max_retries)
    /\ ex' = [ex EXCEPT !.pc = "done", !.attempts = @ + 1, !.outcome = "ValueError"]
    /\ UNCHANGED <<jobVars, gd, rag, audit>>

\* an exception the except clause does not name leaves the function
ExEscape ==
    /\ ex.pc = "loop"
    /\ LoopGuard(ex.attempts, ex.max_retries)
    /\ TryParse(ex.last_raw).exc \notin CaughtExceptions \cup {"none"}
    /\ ExEnd(TryParse(ex.last_raw).exc, NoSheet)
    /\ UNCHANGED <<jobVars, gd, rag, audit>>

\* the loop body never runs (max_retries < 0): `sheet` is unbound at
\* _build_provenance(sheet)
ExFallThrough ==
    /\ ex.pc = "loop"
    /\ ~LoopGuard(ex.attempts, ex.max_retries)
    /\ ExEnd("UnboundLocalError", NoSheet)
    /\ UNCHANGED <<jobVars, gd, rag, audit>>

InitExtract ==
    /\ backend = "file"
    /\ jobs = [j \in JobIds |-> NoJob]
    /\ index = [k \in AllKeys |-> 0]
    /\ nextId = 1
    /\ projects = {}
    /\ files = NoFiles
    /\ task = [j \in JobIds |-> IdleTask]
    /\ lastResponse = NoResponse
    /\ gd = GdIdle
    /\ rag = RagIdle
    /\ audit = AuditIdle
    /\ \E max_retries \in (-1)..MaxRetriesBound :
         \E script \in Scripts(max_retries) : ex = ExState(max_retries, script)

NextExtract ==
    \/ ExComplete
    \/ ExAccept
    \/ ExRetry
    \/ ExGiveUp
    \/ ExEscape
    \/ ExFallThrough

SpecExtract == InitExtract /\ [][NextExtract]_vars

\* The extractor is one synchronous call: once started it keeps running.
SpecExtractLive == SpecExtract /\ WF_vars(NextExtract)

----------------------------------------------------------------------------
(* Claims about the extractor *)

Good(raw) == TryParse(raw).exc = "none"

ParsesAsJson(raw) == ParseJson(raw).exc = "none"

\* index of the first scripted output that parses and normalizes, 0 if none
\* among the first max_retries + 1
FirstGood ==
    LET ks == { k \in 1..(ex.max_retries + 1) : Good(ex.script[k]) }
    IN  IF ks = {} THEN 0 ELSE CHOOSE k \in ks : \A m \in ks : k <= m

\* C8: if the k-th completion output (1 <= k <= max_retries+1) is the first
\* that parses and normalizes, the extractor ends by returning the sheet built
\* from that output after exactly k completion calls.
C8_FirstGoodReturned ==
    (ex.pc = "done" /\ FirstGood # 0)
        => /\ ex.outcome = "returned"
           /\ ex.sheet.product_name = FirstGood
           /\ ex.calls = FirstGood

\* C9: the extractor never makes more than max_retries+1 completion calls;
\* when max_retries >= 0 and no output it received parses as JSON it ends
\* after exactly max_retries+1 calls (max_retries fix prompts) with ValueError
\* and no sheet; and for every max_retries >= 0 it ends.
C9_BoundedRepair ==
    /\ [](ex.max_retries >= 0 => ex.calls <= ex.max_retries + 1)
    /\ []((/\ ex.pc = "done"
           /\ ex.max_retries >= 0
           /\ \A n \in 1..(ex.max_retries + 1) : ~ParsesAsJson(ex.script[n]))
             => /\ ex.calls = ex.max_retries + 1
                /\ ex.attempts = ex.max_retries + 1
                /\ ex.outcome = "ValueError"
                /\ ex.sheet = NoSheet)
    /\ <>(ex.pc = "done")

\* With the default max_retries every output was malformed and the extractor
\* gave up after the third call.
C9_Witness ==
    /\ ex.pc = "done"
    /\ ex.max_retries = MAX_RETRIES
    /\ \A n \in 1..(MAX_RETRIES + 1) : ~ParsesAsJson(ex.script[n])
    /\ ex.calls = MAX_RETRIES + 1
    /\ ex.outcome = "ValueError"

\* a key spec with a name or a value, a constraint or a differentiator with
\* a statement
Populated(item) == item.name # "" \/ item.value # ""

\* C14: in every fact sheet extract_product_fact_sheet returns, each key
\* spec with a non-empty name or value has a non-empty evidence_chunk_ids
\* list.
C14_ReturnedSheetHasEvidence ==
    (ex.pc = "done" /\ ex.outcome = "returned") =>
        \A i \in DOMAIN ex.sheet.key_specs :
            Populated(ex.sheet.key_specs[i])
                => ex.sheet.key_specs[i].evidence_chunk_ids # <<>>

\* C25: whenever the output in hand fails JSON parsing or normalization and
\* fewer than max_retries fix prompts have been issued, the next step of
\* the extractor is a fix prompt, whatever kind of bad output it is
\* (malformed text, JSON that is not an object, an object with a nested
\* field of the wrong type).
C25_BadOutputGetsFixPrompt ==
    [][(/\ ex.pc = "loop"
        /\ ~Good(ex.last_raw)
        /\ ex.attempts < ex.max_retries)
          => ex'.pc = "fix"]_vars

----------------------------------------------------------------------------
(* Guardrail validator: run_draft_guardrails.

   A text is a sequence of characters; a placeholder the validator has
   written is one element of the sequence (it begins with "[", ends with "]"
   and holds lower-case letters and spaces only, so no pattern below can
   match inside it or across its border).  Draft texts are concatenations of
   at most MaxAtoms atoms.  Each pattern is the source's regular expression
   restricted to the characters that occur in such texts: alternatives that
   need another character are left out. *)

MaxAtoms == 3

MaxRuns == 2

Str5 == <<"5">>
StrG == <<"g">>
StrCE == <<"C", "E">>
StrIP == <<"I", "P">>
StrIP52 == <<"I", "P", "5", "2">>
StrFlo == <<"F", "l", "o">>
StrFlow == <<"F", "l", "o", "w">>

\* "$5", "5g", "2g", "-", " ", "Flo", "Flow", "CE", "IP52"
Atoms ==
    { <<"$", "5">>, <<"5", "g">>, <<"2", "g">>, <<"-">>, <<" ">>,
      StrFlo, StrFlow, StrCE, StrIP52 }

RECURSIVE Flatten(_)
Flatten(ss) == IF ss = <<>> THEN <<>> ELSE Head(ss) \o Flatten(Tail(ss))

Texts == { Flatten(as) : as \in UNION { [1..n -> Atoms] : n \in 0..MaxAtoms } }

Digits == {"2", "5"}
UpperLetters == {"C", "E", "F", "I", "P"}
LowerLetters == {"c", "e", "f", "i", "p", "g", "l", "o", "w"}
Letters == UpperLetters \cup LowerLetters
WordChars == Letters \cup Digits
Whitespace == {" "}

DATASHEET == "[refer to datasheet]"
CERT_NOT_VERIFIED == "[certification not verified]"
PRICING_NOT_VERIFIED == "[pricing not verified]"
COMPETITOR_REMOVED == "[competitor name removed]"

\* str.lower() of one character
LowerChar(c) ==
    CASE c = "C" -> "c" [] c = "E" -> "e" [] c = "F" -> "f"
      [] c = "I" -> "i" [] c = "P" -> "p" [] c = "N" -> "n" [] OTHER -> c

Lower(t) == [i \in 1..Len(t) |-> LowerChar(t[i])]

\* the character at position i, "" past either end
At(t, i) == IF i \in 1..Len(t) THEN t[i] ELSE ""

\* `needle in haystack`
IsSubstring(needle, haystack) ==
    \E k \in 0..(Len(haystack) - Len(needle)) :
        SubSeq(haystack, k + 1, k + Len(needle)) = needle

RECURSIVE RemoveSpaces(_)
RemoveSpaces(t) ==
    IF t = <<>> THEN <<>>
    ELSE IF Head(t) \in Whitespace THEN RemoveSpaces(Tail(t))
    ELSE <<Head(t)>> \o RemoveSpaces(Tail(t))

RECURSIVE CollapseSpaces(_)
CollapseSpaces(t) ==
    IF Len(t) < 2 THEN t
    ELSE IF t[1] \in Whitespace /\ t[2] \in Whitespace THEN CollapseSpaces(Tail(t))
    ELSE <<Head(t)>> \o CollapseSpaces(Tail(t))

RECURSIVE Strip(_)
Strip(t) ==
    IF t = <<>> THEN t
    ELSE IF Head(t) \in Whitespace THEN Strip(Tail(t))
    ELSE IF t[Len(t)] \in Whitespace THEN Strip(SubSeq(t, 1, Len(t) - 1))
    ELSE t

\* strip, lower, collapse whitespace (dash and micro-sign variants do not
\* occur in the texts)
Normalize(t) == CollapseSpaces(Lower(Strip(t)))

\* first position >= i that holds no whitespace
RECURSIVE SkipSpaces(_, _)
SkipSpaces(t, i) == IF At(t, i) \in Whitespace THEN SkipSpaces(t, i + 1) ELSE i

\* last position of the longest run of digits that starts at i; i - 1 if none
RECURSIVE DigitsEnd(_, _)
DigitsEnd(t, i) == IF At(t, i) \in Digits THEN DigitsEnd(t, i + 1) ELSE i - 1

RECURSIVE LettersEnd(_, _)
LettersEnd(t, i) == IF At(t, i) \in Letters THEN LettersEnd(t, i + 1) ELSE i - 1

\* \b between positions i - 1 and i
WordBoundary(t, i) == (At(t, i - 1) \in WordChars) # (At(t, i) \in WordChars)

\* `(?=[\s,;.)\/\]\-]|$)`
UnitLookahead(t, i) == At(t, i) \in Whitespace \cup {"-", ""}

\* the unit alternation: of its alternatives only `[mkμµ]?g(?=...)` can
\* match, as "g"
UnitEnd(t, i) == IF At(t, i) = "g" /\ UnitLookahead(t, i + 1) THEN i ELSE 0

\* `\s*` then a unit, from position i
SpacedUnitEnd(t, i) == UnitEnd(t, SkipSpaces(t, i))

\* `(?:\s*(?:[-–]|to)\s*(?:±\s*)?\d+(?:[.,]\d+)?)` followed by `\s*` unit
RangeUnitEnd(t, i) ==
    LET dash == SkipSpaces(t, i)
        from == SkipSpaces(t, dash + 1)
        to   == DigitsEnd(t, from)
    IN  IF At(t, dash) = "-" /\ to >= from THEN SpacedUnitEnd(t, to + 1) ELSE 0

\* _NUMERIC_SPEC_RE matched at position i: the end of the match, 0 if none.
\* The range is tried first, then the number alone.
NumericSpecEnd(t, i) ==
    LET d == DigitsEnd(t, i)
    IN  IF d < i THEN 0
        ELSE IF RangeUnitEnd(t, d + 1) # 0 THEN RangeUnitEnd(t, d + 1)
        ELSE SpacedUnitEnd(t, d + 1)

\* _IP_RATING_RE = \bIP\d{2}\b
IpRatingEnd(t, i) ==
    IF /\ WordBoundary(t, i)
       /\ At(t, i) = "I" /\ At(t, i + 1) = "P"
       /\ At(t, i + 2) \in Digits /\ At(t, i + 3) \in Digits
       /\ WordBoundary(t, i + 4)
    THEN i + 3 ELSE 0

\* _CERT_RE, case-insensitive: of its alternatives only `CE\b` can match
CertEnd(t, i) ==
    IF /\ WordBoundary(t, i)
       /\ LowerChar(At(t, i)) = "c" /\ LowerChar(At(t, i + 1)) = "e"
       /\ WordBoundary(t, i + 2)
    THEN i + 1 ELSE 0

\* _PRICE_RE: of its alternatives only `[$€£¥]\s*\d[\d,]*(?:\.\d{1,2})?`
\* can match
PriceEnd(t, i) ==
    LET d == SkipSpaces(t, i + 1)
    IN  IF At(t, i) = "$" /\ DigitsEnd(t, d) >= d THEN DigitsEnd(t, d) ELSE 0

\* _PROPER_NOUN_RE = \b[A-Z][a-zA-Z]+(?:[+&][A-Z][a-zA-Z]+)*\b
ProperNounEnd(t, i) ==
    LET e == LettersEnd(t, i)
    IN  IF /\ WordBoundary(t, i)
           /\ At(t, i) \in UpperLetters
           /\ e >= i + 1
           /\ WordBoundary(t, e + 1)
        THEN e ELSE 0

MatchEnd(re, t, i) ==
    CASE re = "numeric" -> NumericSpecEnd(t, i)
      [] re = "ip" -> IpRatingEnd(t, i)
      [] re = "cert" -> CertEnd(t, i)
      [] re = "price" -> PriceEnd(t, i)
      [] re = "proper_noun" -> ProperNounEnd(t, i)

\* `value` is worked out once and handed to Body
Bind(value, Body(_)) == CHOOSE r \in { Body(v) : v \in {value} } : TRUE

\* re.finditer: the matches left to right, none overlapping
RECURSIVE FindIterFrom(_, _, _)
FindIterFrom(re, t, i) ==
    IF i > Len(t) THEN <<>>
    ELSE Bind(MatchEnd(re, t, i), LAMBDA e :
           IF e = 0 THEN FindIterFrom(re, t, i + 1)
           ELSE <<SubSeq(t, i, e)>> \o FindIterFrom(re, t, e + 1))

FindIter(re, text) == Bind(text, LAMBDA t : FindIterFrom(re, t, 1))

Range(f) == { f[i] : i \in DOMAIN f }

\* The fact-sheet fields the validator reads.
Sheet(name, specs, constraints, certs) ==
    [product_name |-> name, key_specs |-> specs, constraints |-> constraints,
     differentiators |-> <<>>, maintenance_calibration |-> <<>>,
     integrations_interfaces |-> <<>>, certifications_standards |-> certs]

KeySpec(value, unit) == [value |-> value, unit |-> unit]

\* A fact sheet with its source text:
\*   product "IP", key spec 5 g, no source text;
\*   product "Flow", certification CE, constraint "IP52", source "$5 Flo";
\*   product "IP", key spec 5 g, certification CE, source "$5".
Scenarios ==
    { [sheet |-> Sheet(StrIP, <<KeySpec(Str5, StrG)>>, <<>>, <<>>),
       source_text |-> <<>>],
      [sheet |-> Sheet(StrFlow, <<>>, <<StrIP52>>, <<StrCE>>),
       source_text |-> <<"$", "5", " ">> \o StrFlo],
      [sheet |-> Sheet(StrIP, <<KeySpec(Str5, StrG)>>, <<>>, <<StrCE>>),
       source_text |-> <<"$", "5">>] }

HarvestTexts(sheet) ==
    sheet.constraints \o sheet.differentiators
        \o sheet.maintenance_calibration \o sheet.integrations_interfaces

BuildAllowedNumericSet(sheet) ==
    LET specs == { sp \in Range(sheet.key_specs) : sp.value # <<>> }
    IN  UNION { { Normalize(sp.value \o <<" ">> \o sp.unit),
                  Normalize(sp.value),
                  Normalize(sp.value \o sp.unit) } : sp \in specs }
        \cup UNION { { Normalize(m) : m \in Range(FindIter("numeric", text)) }
                       \cup { Normalize(m) : m \in Range(FindIter("ip", text)) }
                     : text \in Range(HarvestTexts(sheet)) }

BuildAllowedCerts(sheet) ==
    { Normalize(c) : c \in { x \in Range(sheet.certifications_standards) : x # <<>> } }

\* a check that lets every match through
NumericIsGroundedAlways(match_text, allowed) == TRUE

NumericIsGrounded(match_text, allowed) ==
    \E norm \in {Normalize(match_text)} :
    \E norm_nospace \in {RemoveSpaces(norm)} :
        \/ norm \in allowed
        \/ norm_nospace \in allowed
        \/ \E a \in allowed :
              \/ IsSubstring(norm_nospace, RemoveSpaces(a))
              \/ IsSubstring(RemoveSpaces(a), norm_nospace)
              \/ IsSubstring(norm, a)
              \/ IsSubstring(a, norm)

CertIsGrounded(cert_text, allowed) ==
    \E norm \in {Normalize(cert_text)} :
        \E a \in allowed : IsSubstring(norm, a) \/ IsSubstring(a, norm)

\* `source_text_lower and original.lower() in source_text_lower`
PriceIsGrounded(original, source_text_lower) ==
    source_text_lower # <<>> /\ IsSubstring(Lower(original), source_text_lower)

\* the locals run_draft_guardrails builds before it cleans the sections
Env(sheet, source_text) ==
    [allowed_numerics |-> BuildAllowedNumericSet(sheet),
     allowed_certs |-> BuildAllowedCerts(sheet),
     product_name_lower |-> Normalize(sheet.product_name),
     source_text_lower |-> Lower(source_text)]

Grounded(re, m, env) ==
    CASE re \in {"numeric", "ip"} -> NumericIsGrounded(m, env.allowed_numerics)
      [] re = "cert" -> CertIsGrounded(m, env.allowed_certs)
      [] re = "price" -> PriceIsGrounded(m, env.source_text_lower)

Replacement(re) ==
    CASE re \in {"numeric", "ip"} -> DATASHEET
      [] re = "cert" -> CERT_NOT_VERIFIED
      [] re = "price" -> PRICING_NOT_VERIFIED

Category(re) ==
    CASE re \in {"numeric", "ip"} -> "ungrounded_numeric_spec"
      [] re = "cert" -> "ungrounded_certification"
      [] re = "price" -> "ungrounded_pricing"

GuardrailWarning(category, field_path, original, replacement) ==
    [category |-> category, severity |-> "replaced", field_path |-> field_path,
     original_snippet |-> original, replacement |-> replacement]

Cleaned(text, warnings) == [text |-> text, warnings |-> warnings]

\* pattern.sub(replacer, text): the matches of FindIter, each handed to the
\* replacer; a match that is not grounded gives way to the placeholder and
\* adds a warning.  `matches` are the matches from position i on.
RECURSIVE SubFrom(_, _, _, _, _, _)
SubFrom(re, t, i, matches, field_path, env) ==
    IF matches = <<>> THEN Cleaned(SubSeq(t, i, Len(t)), <<>>)
    ELSE Bind(Head(matches), LAMBDA m :
         Bind(SubFrom(re, t, m.to + 1, Tail(matches), field_path, env), LAMBDA rest :
           IF Grounded(re, m.text, env)
           THEN Cleaned(SubSeq(t, i, m.to) \o rest.text, rest.warnings)
           ELSE Cleaned(SubSeq(t, i, m.from - 1) \o <<Replacement(re)>> \o rest.text,
                        <<GuardrailWarning(Category(re), field_path, m.text,
                                           Replacement(re))>> \o rest.warnings)))

\* the matches with their positions
RECURSIVE MatchesFrom(_, _, _)
MatchesFrom(re, t, i) ==
    IF i > Len(t) THEN <<>>
    ELSE Bind(MatchEnd(re, t, i), LAMBDA e :
           IF e = 0 THEN MatchesFrom(re, t, i + 1)
           ELSE <<[from |-> i, to |-> e, text |-> SubSeq(t, i, e)]>>
                   \o MatchesFrom(re, t, e + 1))

Sub(re, text, field_path, env) ==
    Bind(text, LAMBDA t :
    Bind(MatchesFrom(re, t, 1), LAMBDA matches :
        SubFrom(re, t, 1, matches, field_path, env)))

\* `if not text or not text.strip(): return text`
Blank(text) == Strip(text) = <<>>

\* numeric specs, IP ratings, certifications, pricing, in this order
CleanTextField(text, field_path, env) ==
    IF Blank(text) THEN Cleaned(text, <<>>)
    ELSE Bind(Sub("numeric", text, field_path, env), LAMBDA numeric :
         Bind(Sub("ip", numeric.text, field_path, env), LAMBDA ip :
         Bind(Sub("cert", ip.text, field_path, env), LAMBDA cert :
         Bind(Sub("price", cert.text, field_path, env), LAMBDA price :
             Cleaned(price.text,
                     numeric.warnings \o ip.warnings \o cert.warnings
                         \o price.warnings)))))

\* the words of _NON_BRAND_WORDS that can occur in the texts
NON_BRAND_WORDS == { StrFlow }

\* result.replace(word, replacement, 1): the leftmost occurrence of word
ReplaceFirst(result, word, replacement) ==
    LET at == { k \in 1..(Len(result) - Len(word) + 1) :
                  SubSeq(result, k, k + Len(word) - 1) = word }
    IN  IF at = {} THEN result
        ELSE Bind(CHOOSE k \in at : \A m \in at : k <= m, LAMBDA k :
               SubSeq(result, 1, k - 1) \o <<replacement>>
                   \o SubSeq(result, k + Len(word), Len(result)))

\* the tests that make _scan_for_competitor_brands skip a word
SkippedWord(word, env) ==
    \/ Len(word) < 3
    \/ word \in NON_BRAND_WORDS
    \/ IsSubstring(Lower(word), env.product_name_lower)
    \/ /\ env.source_text_lower # <<>>
       /\ IsSubstring(Lower(word), env.source_text_lower)

\* the loop over the proper nouns of the original text
RECURSIVE ScanWords(_, _, _, _)
ScanWords(words, field_path, env, result) ==
    IF words = <<>> THEN result
    ELSE Bind(result, LAMBDA r :
         Bind(Head(words), LAMBDA word :
           IF SkippedWord(word, env)
           THEN ScanWords(Tail(words), field_path, env, r)
           ELSE ScanWords(Tail(words), field_path, env,
                  Cleaned(ReplaceFirst(r.text, word, COMPETITOR_REMOVED),
                          Append(r.warnings,
                                 GuardrailWarning("competitor_brand", field_path,
                                                  word, COMPETITOR_REMOVED))))))

ScanForCompetitorBrands(text, field_path, env) ==
    IF Blank(text) THEN Cleaned(text, <<>>)
    ELSE Bind(FindIter("proper_noun", text), LAMBDA words :
           ScanWords(words, field_path, env, Cleaned(text, <<>>)))

\* The draft bundle: one plain field of the landing page and one benefit
\* with its is_factual flag, one FAQ item with its is_factual flag, one
\* comparison dimension's generic_alternative.
Drafts(problem_statement, benefit, faq, generic_alternative) ==
    [landing_page |-> [problem_statement |-> problem_statement, benefit |-> benefit],
     faq |-> faq,
     comparisons |-> [generic_alternative |-> generic_alternative]]

BenefitItem(description, is_factual) ==
    [description |-> description, is_factual |-> is_factual]

FAQItem(answer, is_factual) == [answer |-> answer, is_factual |-> is_factual]

Pass(drafts, warnings) == [drafts |-> drafts, warnings |-> warnings]

\* problem_statement, then the benefit:
\* `if benefit.description != before: benefit.is_factual = False`
CleanLandingPage(drafts, env) ==
    Bind(CleanTextField(drafts.landing_page.problem_statement,
                        "landing_page.problem_statement", env), LAMBDA c :
    Bind(CleanTextField(drafts.landing_page.benefit.description,
                        "landing_page.benefits[0].description", env), LAMBDA b :
        Pass([drafts EXCEPT !.landing_page.problem_statement = c.text,
                            !.landing_page.benefit.description = b.text,
                            !.landing_page.benefit.is_factual =
                                IF b.text # drafts.landing_page.benefit.description
                                THEN FALSE ELSE @],
             c.warnings \o b.warnings)))

\* a cleaner that leaves the flag of a rewritten answer as it was
CleanFaqKeepingFlag(drafts, env) ==
    Bind(CleanTextField(drafts.faq.answer, "faq[0].answer", env), LAMBDA c :
        Pass([drafts EXCEPT !.faq.answer = c.text], c.warnings))

\* `if item.answer != before: item.is_factual = False`
CleanFaq(drafts, env) ==
    Bind(CleanTextField(drafts.faq.answer, "faq[0].answer", env), LAMBDA c :
        Pass([drafts EXCEPT !.faq.answer = c.text,
                            !.faq.is_factual = IF c.text # drafts.faq.answer
                                               THEN FALSE ELSE @],
             c.warnings))

\* generic_alternative: the text cleaner, then the competitor-brand scan
CleanComparisons(drafts, env) ==
    Bind(CleanTextField(drafts.comparisons.generic_alternative,
                        "comparisons[0].dimensions[0].generic_alternative", env),
         LAMBDA c :
    Bind(ScanForCompetitorBrands(c.text,
                        "comparisons[0].dimensions[0].generic_alternative", env),
         LAMBDA b :
        Pass([drafts EXCEPT !.comparisons.generic_alternative = b.text],
             c.warnings \o b.warnings)))

\* the sections in the order run_draft_guardrails cleans them
RunDraftGuardrails(drafts, sheet, source_text) ==
    Bind(Env(sheet, source_text), LAMBDA env :
    Bind(CleanLandingPage(drafts, env), LAMBDA lp :
    Bind(CleanFaq(lp.drafts, env), LAMBDA faq :
    Bind(CleanComparisons(faq.drafts, env), LAMBDA cmp :
        Pass(cmp.drafts, lp.warnings \o faq.warnings \o cmp.warnings)))))

\* the drafts that hold `text` in one field and nothing in the others
DraftsWith(field, text, is_factual) ==
    Drafts(IF field = "problem_statement" THEN text ELSE <<>>,
           IF field = "description" THEN BenefitItem(text, is_factual)
           ELSE BenefitItem(<<>>, TRUE),
           IF field = "answer" THEN FAQItem(text, is_factual)
           ELSE FAQItem(<<>>, TRUE),
           IF field = "generic_alternative" THEN text ELSE <<>>)

DraftFields == {"problem_statement", "description", "answer", "generic_alternative"}

\* the fields of an item that carries an is_factual flag
FlaggedFields == {"description", "answer"}

\* run_draft_guardrails(drafts, sheet, source_text) on the drafts as they are
RunGuardrails ==
    /\ gd.runs < MaxRuns
    /\ \E pass \in {RunDraftGuardrails(gd.drafts, gd.sheet, gd.source_text)} :
         gd' = [gd EXCEPT !.drafts = pass.drafts, !.warnings = pass.warnings,
                          !.runs = @ + 1]
    /\ UNCHANGED <<jobVars, ex, rag, audit>>

InitGuard ==
    /\ backend = "file"
    /\ jobs = [j \in JobIds |-> NoJob]
    /\ index = [k \in AllKeys |-> 0]
    /\ nextId = 1
    /\ projects = {}
    /\ files = NoFiles
    /\ task = [j \in JobIds |-> IdleTask]
    /\ lastResponse = NoResponse
    /\ ex = ExIdle
    /\ rag = RagIdle
    /\ audit = AuditIdle
    /\ \E sc \in Scenarios, field \in DraftFields, text \in Texts, is_factual \in BOOLEAN :
         /\ (field \notin FlaggedFields => is_factual)
         /\ gd = [sheet |-> sc.sheet, source_text |-> sc.source_text,
                  drafts |-> DraftsWith(field, text, is_factual),
                  warnings |-> <<>>, runs |-> 0]

NextGuard == RunGuardrails

SpecGuard == InitGuard /\ [][NextGuard]_vars

----------------------------------------------------------------------------
(* Claims about the guardrail validator *)

\* C10: a run of run_draft_guardrails on drafts an earlier run has cleaned
\* (same fact sheet, same source text) returns no warning and changes no
\* field.
C10_SecondRunChangesNothing ==
    [][(gd.runs >= 1 /\ gd'.runs = gd.runs + 1)
          => (gd'.warnings = <<>> /\ gd'.drafts = gd.drafts)]_vars

\* the string fields of the draft bundle
DraftTexts(drafts) ==
    { drafts.landing_page.problem_statement,
      drafts.landing_page.benefit.description, drafts.faq.answer,
      drafts.comparisons.generic_alternative }

\* the number+unit and IP-rating matches of `text` that _numeric_is_grounded
\* turns down
UngroundedNumerics(text, allowed) ==
    { m \in Range(FindIter("numeric", text)) \cup Range(FindIter("ip", text)) :
        ~NumericIsGrounded(m, allowed) }

\* C11: once run_draft_guardrails has run, no string field of the drafts
\* holds a number+unit or IP-rating match that is outside the allow-set
\* built from the fact sheet.
C11_NoUngroundedNumericLeft ==
    gd.runs >= 1 =>
        \A text \in DraftTexts(gd.drafts) :
            UngroundedNumerics(text, BuildAllowedNumericSet(gd.sheet)) = {}

----------------------------------------------------------------------------
(* The guardrail pass on a field that states one key spec *)

MaxDigits == 2

\* the numbers a key spec or a draft states, as digit strings
Numbers == UNION { [1..n -> Digits] : n \in 1..MaxDigits }

\* "<number> g"
Stated(number) == number \o <<" ">> \o StrG

\* A fact sheet whose one key spec is (value, "g"), no source text, and
\* drafts with one field stating "<number> g".
InitKeySpec ==
    /\ backend = "file"
    /\ jobs = [j \in JobIds |-> NoJob]
    /\ index = [k \in AllKeys |-> 0]
    /\ nextId = 1
    /\ projects = {}
    /\ files = NoFiles
    /\ task = [j \in JobIds |-> IdleTask]
    /\ lastResponse = NoResponse
    /\ ex = ExIdle
    /\ rag = RagIdle
    /\ audit = AuditIdle
    /\ \E value \in Numbers, number \in Numbers, field \in DraftFields,
          is_factual \in BOOLEAN :
         /\ (field \notin FlaggedFields => is_factual)
         /\ gd = [sheet |-> Sheet(StrIP, <<KeySpec(value, StrG)>>, <<>>, <<>>),
                  source_text |-> <<>>,
                  drafts |-> DraftsWith(field, Stated(number), is_factual),
                  warnings |-> <<>>, runs |-> 0]

SpecKeySpec == InitKeySpec /\ [][NextGuard]_vars

\* one call of run_draft_guardrails on drafts no call has cleaned yet
FirstRun == gd.runs = 0 /\ gd'.runs = 1

\* the text the drafts hold in `field`
FieldText(drafts, field) ==
    CASE field = "problem_statement" -> drafts.landing_page.problem_statement
      [] field = "description" -> drafts.landing_page.benefit.description
      [] field = "answer" -> drafts.faq.answer
      [] field = "generic_alternative" -> drafts.comparisons.generic_alternative

\* the call left the field as it was and warned of nothing
PassedUnchanged(field) ==
    /\ FieldText(gd'.drafts, field) = FieldText(gd.drafts, field)
    /\ gd'.warnings = <<>>

\* the call rewrote the field to the placeholder and left exactly one
\* warning, an ungrounded_numeric_spec
RewrittenToPlaceholder(field) ==
    /\ FieldText(gd'.drafts, field) = <<DATASHEET>>
    /\ Len(gd'.warnings) = 1
    /\ gd'.warnings[1].category = "ungrounded_numeric_spec"

\* the number the one key spec of the fact sheet gives
SheetValue == gd.sheet.key_specs[1].value

\* C12 as stated: with a key spec (v, g), a field stating exactly "v g"
\* passes unchanged with no warning, and a field stating any other number
\* with the same unit is rewritten to '[refer to datasheet]' with exactly
\* one ungrounded_numeric_spec warning.
C12_OtherNumberRewritten ==
    [][FirstRun =>
          \A field \in DraftFields, number \in Numbers :
              FieldText(gd.drafts, field) = Stated(number) =>
                  IF number = SheetValue THEN PassedUnchanged(field)
                  ELSE RewrittenToPlaceholder(field)]_vars

\* `number` ends `value`
EndsWith(value, number) ==
    /\ Len(number) <= Len(value)
    /\ SubSeq(value, Len(value) - Len(number) + 1, Len(value)) = number

\* C12, amended: with a key spec (v, g), a field stating exactly "v g"
\* passes unchanged with no warning; a field stating another number w with
\* the same unit is rewritten to '[refer to datasheet]' with exactly one
\* ungrounded_numeric_spec warning when w does not contain v and v does not
\* end in w, and passes unchanged with no warning otherwise.
C12_UnrelatedNumberRewritten ==
    [][FirstRun =>
          \A field \in DraftFields, number \in Numbers :
              FieldText(gd.drafts, field) = Stated(number) =>
                  IF IsSubstring(SheetValue, number) \/ EndsWith(SheetValue, number)
                  THEN PassedUnchanged(field)
                  ELSE RewrittenToPlaceholder(field)]_vars

\* key spec 5 g, a field that stated "2 g": one call has rewritten it
C12_Witness ==
    /\ gd.runs = 1
    /\ gd.sheet.key_specs = <<KeySpec(Str5, StrG)>>
    /\ gd.drafts.faq.answer = <<DATASHEET>>
    /\ Len(gd.warnings) = 1
    /\ gd.warnings[1].original_snippet = Stated(<<"2">>)

----------------------------------------------------------------------------
(* The retrieval context of a generation call and the evidence of its items *)

MaxResults == 2
MaxChars == 3

\* chunk ids as (kind, number): "pdf-1" is <<"pdf", 1>>
ChunkIds == { <<"pdf", 1>>, <<"pdf", 2>>, <<"url", 1>> }

\* the empty chunk id, ""
NoId == <<>>

\* len(f"[{cid}] {text[:1500]}") of a chunk
SnippetLens == {1, 2}

\* the rows store.query gives back for one query, nearest first
ResultLists == UNION { [1..n -> ChunkIds] : n \in 0..MaxResults }

\* the section's queries, in order
Queries == <<"q1", "q2">>

\* one row of store.query
Row(cid, chars) ==
    [chunk_id |-> cid, chars |-> chars, metadata |-> [source_file |-> cid[1]]]

\* store.query(q, n_results)
StoreQuery(store, q) ==
    [i \in 1..Len(store.results[q]) |->
        Row(store.results[q][i], store.chars[store.results[q][i]])]

\* the locals of _build_context
Context(seen, parts, meta_map, total) ==
    [seen |-> seen, parts |-> parts, meta_map |-> meta_map, total |-> total]

\* meta_map[cid] = metadata
MapPut(map, key, value) ==
    [k \in DOMAIN map \cup {key} |-> IF k = key THEN value ELSE map[k]]

\* a test that takes every row for new
NeverSeen(cid, seen) == FALSE

\* `if cid in seen` (and `cid not in seen`)
AlreadySeen(cid, seen) == cid \in seen

\* `for r in results`: a row seen before is skipped; the first row whose
\* snippet would take the total past max_chars ends the loop over this
\* query's rows, after its id has gone into `seen`
RECURSIVE ResultsLoop(_, _, _, _)
ResultsLoop(results, i, max_chars, ctx) ==
    IF i > Len(results) THEN ctx
    ELSE Bind(results[i], LAMBDA r :
         IF AlreadySeen(r.chunk_id, ctx.seen)
         THEN ResultsLoop(results, i + 1, max_chars, ctx)
         ELSE IF ctx.total + r.chars > max_chars
              THEN [ctx EXCEPT !.seen = @ \cup {r.chunk_id}]
              ELSE Bind(Context(ctx.seen \cup {r.chunk_id},
                                Append(ctx.parts, r.chunk_id),
                                MapPut(ctx.meta_map, r.chunk_id, r.metadata),
                                ctx.total + r.chars),
                        LAMBDA next : ResultsLoop(results, i + 1, max_chars, next)))

\* `for q in queries`
RECURSIVE QueriesLoop(_, _, _, _, _)
QueriesLoop(store, queries, k, max_chars, ctx) ==
    IF k > Len(queries) THEN ctx
    ELSE Bind(ResultsLoop(StoreQuery(store, queries[k]), 1, max_chars, ctx),
              LAMBDA next : QueriesLoop(store, queries, k + 1, max_chars, next))

\* _build_context(store, queries, max_chars): the snippets (each by the
\* chunk id it opens with) and the metadata map
BuildContext(store, queries, max_chars) ==
    QueriesLoop(store, queries, 1, max_chars, Context({}, <<>>, << >>, 0))

\* _chunks_from_store, `for r in results`: every row with an id that is not
\* empty and was not seen before is kept
RECURSIVE ChunkRowsLoop(_, _, _)
ChunkRowsLoop(results, i, out) ==
    IF i > Len(results) THEN out
    ELSE Bind(results[i].chunk_id, LAMBDA cid :
         IF cid # NoId /\ ~AlreadySeen(cid, Range(out))
         THEN Bind(Append(out, cid), LAMBDA next : ChunkRowsLoop(results, i + 1, next))
         ELSE ChunkRowsLoop(results, i + 1, out))

\* _chunks_from_store(store, queries): the chunks, each by its chunk id
RECURSIVE ChunksFromStore(_, _, _, _)
ChunksFromStore(store, queries, k, out) ==
    IF k > Len(queries) THEN out
    ELSE Bind(ChunkRowsLoop(StoreQuery(store, queries[k]), 1, out),
              LAMBDA next : ChunksFromStore(store, queries, k + 1, next))

\* one token of a generated text: a bracketed reference [body] or a word
Token(bracket, body) == [bracket |-> bracket, body |-> body]

\* re.findall(r"\[(pdf-[^\]]+|url-[^\]]+)\]", text)
RECURSIVE ExtractInlineCites(_)
ExtractInlineCites(text) ==
    IF text = <<>> THEN <<>>
    ELSE (IF Head(text).bracket /\ Head(text).body[1] \in {"pdf", "url"}
          THEN <<Head(text).body>> ELSE <<>>)
         \o ExtractInlineCites(Tail(text))

\* list(dict.fromkeys(ids)): the first occurrence of each id, in order
RECURSIVE Dedup(_)
Dedup(ids) ==
    IF ids = <<>> THEN <<>>
    ELSE Bind(Dedup(SubSeq(ids, 1, Len(ids) - 1)), LAMBDA front :
         IF ids[Len(ids)] \in Range(front) THEN front
         ELSE Append(front, ids[Len(ids)]))

\* meta_map.get(cid, {}).get("source_file", "")
SourceFile(meta_map, cid) ==
    IF cid \in DOMAIN meta_map THEN meta_map[cid].source_file ELSE ""

EvidenceRef(cid, source_file) == [chunk_ids |-> <<cid>>, source_file |-> source_file]

\* _to_evidence_refs(cited_ids, meta_map): one record for every id that is
\* not empty, its metadata looked up with a default
RECURSIVE ToEvidenceRefs(_, _)
ToEvidenceRefs(cited_ids, meta_map) ==
    IF cited_ids = <<>> THEN <<>>
    ELSE (IF Head(cited_ids) = NoId THEN <<>>
          ELSE <<EvidenceRef(Head(cited_ids), SourceFile(meta_map, Head(cited_ids)))>>)
         \o ToEvidenceRefs(Tail(cited_ids), meta_map)

MaxCites == 1

\* what the completion service may put in cited_chunk_ids: an id of the
\* store, an id of no chunk, the empty string
CitedLists ==
    UNION { [1..n -> {<<"pdf", 1>>, <<"pdf", 9>>, NoId}] : n \in 0..MaxCites }

\* the answers it may write: at most MaxCites tokens, bracketed references to a
\* chunk of the store, to no chunk, to a figure, or a bare word
Answers ==
    UNION { [1..n -> { Token(TRUE, <<"pdf", 1>>), Token(TRUE, <<"url", 1>>),
                       Token(TRUE, <<"pdf", 9>>), Token(TRUE, <<"fig", 1>>),
                       Token(FALSE, <<"pdf", 2>>) }] : n \in 0..MaxCites }

NoItem == [cited_chunk_ids |-> <<>>, answer |-> <<>>, evidence |-> <<>>]

\* the FAQItem _generate_faq builds from one item of the completion
FaqItem(cited, answer, meta_map) ==
    [cited_chunk_ids |-> cited, answer |-> answer,
     evidence |-> ToEvidenceRefs(Dedup(cited \o ExtractInlineCites(answer)), meta_map)]

\* _generate_faq up to the completion call: the context is built
RetrieveContext ==
    /\ rag.pc = "start"
    /\ \E ctx \in {BuildContext(rag.store, Queries, rag.max_chars)} :
         rag' = [rag EXCEPT !.pc = "context", !.parts = ctx.parts,
                            !.meta_map = ctx.meta_map]
    /\ UNCHANGED <<jobVars, ex, gd, audit>>

\* extract_product_fact_sheet up to the prompt: the chunks are gathered
RetrieveChunks ==
    /\ rag.pc = "start"
    /\ rag' = [rag EXCEPT !.pc = "chunks",
                          !.parts = ChunksFromStore(rag.store, Queries, 1, <<>>)]
    /\ UNCHANGED <<jobVars, ex, gd, audit>>

\* the completion returns one item; its evidence is resolved against the
\* metadata map of this call
GenerateItem ==
    /\ rag.pc = "context"
    /\ \E cited \in CitedLists, answer \in Answers :
         rag' = [rag EXCEPT !.pc = "done",
                            !.item = FaqItem(cited, answer, rag.meta_map)]
    /\ UNCHANGED <<jobVars, ex, gd, audit>>

InitContext ==
    /\ backend = "file"
    /\ jobs = [j \in JobIds |-> NoJob]
    /\ index = [k \in AllKeys |-> 0]
    /\ nextId = 1
    /\ projects = {}
    /\ files = NoFiles
    /\ task = [j \in JobIds |-> IdleTask]
    /\ lastResponse = NoResponse
    /\ ex = ExIdle
    /\ gd = GdIdle
    /\ audit = AuditIdle
    /\ \E results \in [Range(Queries) -> ResultLists],
          chars \in [ChunkIds -> SnippetLens], max_chars \in 1..MaxChars :
         rag = [pc |-> "start",
                store |-> [results |-> results, chars |-> chars],
                max_chars |-> max_chars,
                parts |-> <<>>, meta_map |-> << >>, item |-> NoItem]

NextContext == RetrieveContext \/ RetrieveChunks

SpecContext == InitContext /\ [][NextContext]_vars

NextCite == RetrieveContext \/ GenerateItem

SpecCite == InitContext /\ [][NextCite]_vars

----------------------------------------------------------------------------
(* Claims about the retrieval context and the evidence *)

\* C13: every evidence record of a generated item names a chunk id that is
\* in the metadata map built for that call, whatever cited_chunk_ids and
\* inline tokens the completion holds.
C13_EvidenceInContext ==
    rag.pc = "done" =>
        \A e \in Range(rag.item.evidence) :
            \A cid \in Range(e.chunk_ids) : cid \in DOMAIN rag.meta_map

----------------------------------------------------------------------------
(* The verifier pass over a fact sheet: run_verifier_factsheet.  Of the
   VerifierResult only blocked_issues is modelled; warnings and
   suggested_queries are computed apart from it. *)

MaxItems == 2

\* structured items of a fact sheet: key specs with or without a name, a
\* value and evidence (name, value, unit and conditions are character
\* strings), constraints and differentiators with or without a statement
\* and evidence
KeySpecItems ==
    [name : {<<>>, StrFlow}, value : {<<>>, Str5, <<"2">>}, unit : {StrG},
     conditions : {<<>>}, evidence_chunk_ids : {<<>>, <<"c1">>}]

StatementItems == [statement : {"", "s"}, evidence_chunk_ids : {<<>>, <<"c1">>}]

ListsOf(items, n) == [1..n -> items]

\* how many key specs, constraints and differentiators a sheet with at most
\* MaxItems structured items has
ItemCounts ==
    { n \in (0..MaxItems) \X (0..MaxItems) \X (0..MaxItems) :
        n[1] + n[2] + n[3] <= MaxItems }

\* the fact sheets with at most MaxItems structured items
FactSheets ==
    UNION { { [key_specs |-> ks, constraints |-> cs, differentiators |-> ds] :
                ks \in ListsOf(KeySpecItems, n[1]), cs \in ListsOf(StatementItems, n[2]),
                ds \in ListsOf(StatementItems, n[3]) } : n \in ItemCounts }

\* a blocking issue: the check that raised it and the field path (or the
\* spec name) its message names; list indexes count from 0
BlockingIssue(check, subject) == [check |-> check, subject |-> subject]

\* a test that overlooks a key spec without a name
KeySpecUnsupportedByName(spec) ==
    spec.name # <<>> /\ spec.evidence_chunk_ids = <<>>

\* `(spec.name or spec.value) and not spec.evidence_chunk_ids`
KeySpecUnsupported(spec) ==
    (spec.name # <<>> \/ spec.value # <<>>) /\ spec.evidence_chunk_ids = <<>>

\* `c.statement and not c.evidence_chunk_ids`
StatementUnsupported(item) ==
    item.statement # "" /\ item.evidence_chunk_ids = <<>>

Unsupported(section, item) ==
    IF section = "key_specs" THEN KeySpecUnsupported(item)
    ELSE StatementUnsupported(item)

\* `for i, item in enumerate(items)`: one issue for every unsupported item
RECURSIVE EvidenceIssues(_, _, _)
EvidenceIssues(section, items, i) ==
    IF i > Len(items) THEN <<>>
    ELSE (IF Unsupported(section, items[i])
          THEN <<BlockingIssue("evidence", <<section, i - 1>>)>> ELSE <<>>)
         \o EvidenceIssues(section, items, i + 1)

\* `(spec.name or "").strip().lower()`
SpecKey(spec) == Lower(Strip(spec.name))

\* `f"{s.value}{s.unit or ''}{s.conditions or ''}".strip()`
SpecValue(spec) == Strip(spec.value \o spec.unit \o spec.conditions)

\* the keys of by_name in the order the loop first meets them
RECURSIVE SpecNames(_, _)
SpecNames(key_specs, i) ==
    IF i = 0 THEN <<>>
    ELSE Bind(SpecNames(key_specs, i - 1), LAMBDA names :
         Bind(SpecKey(key_specs[i]), LAMBDA name :
         IF name = <<>> \/ name \in { names[k] : k \in DOMAIN names }
         THEN names ELSE Append(names, name)))

\* _check_contradictory_specs_factsheet: one issue for every name that
\* comes with more than one value
RECURSIVE ContradictoryFrom(_, _, _)
ContradictoryFrom(key_specs, names, k) ==
    IF k > Len(names) THEN <<>>
    ELSE (IF Cardinality({ SpecValue(key_specs[i]) :
                             i \in { j \in DOMAIN key_specs : SpecKey(key_specs[j]) = names[k] } }) > 1
          THEN <<BlockingIssue("contradiction", <<names[k]>>)>> ELSE <<>>)
         \o ContradictoryFrom(key_specs, names, k + 1)

CheckContradictorySpecs(sheet) ==
    ContradictoryFrom(sheet.key_specs, SpecNames(sheet.key_specs, Len(sheet.key_specs)), 1)

\* run_verifier_factsheet(sheet).blocked_issues
RunVerifierFactsheet(sheet) ==
    EvidenceIssues("key_specs", sheet.key_specs, 1)
        \o EvidenceIssues("constraints", sheet.constraints, 1)
        \o EvidenceIssues("differentiators", sheet.differentiators, 1)
        \o CheckContradictorySpecs(sheet)

\* a test that looks at key specs only
NeedsEvidenceKeySpecsOnly(section, item) ==
    /\ section = "key_specs"
    /\ (item.name # <<>> \/ item.value # <<>>) /\ item.evidence_chunk_ids = <<>>

\* the three tests of require_evidence_for_non_not_found
NeedsEvidence(section, item) ==
    IF section = "key_specs"
    THEN (item.name # <<>> \/ item.value # <<>>) /\ item.evidence_chunk_ids = <<>>
    ELSE item.statement # "" /\ item.evidence_chunk_ids = <<>>

\* one loop of require_evidence_for_non_not_found; a violation message
\* names section[i], i counting from 0
RECURSIVE Violations(_, _, _)
Violations(section, items, i) ==
    IF i > Len(items) THEN <<>>
    ELSE (IF NeedsEvidence(section, items[i]) THEN <<<<section, i - 1>>>> ELSE <<>>)
         \o Violations(section, items, i + 1)

\* require_evidence_for_non_not_found(sheet)
RequireEvidenceForNonNotFound(sheet) ==
    Violations("key_specs", sheet.key_specs, 1)
        \o Violations("constraints", sheet.constraints, 1)
        \o Violations("differentiators", sheet.differentiators, 1)

\* the caller asks for the violations of the sheet
RequireEvidence ==
    /\ audit.pc \in {"sheet", "verified"}
    /\ ~audit.checked
    /\ audit' = [audit EXCEPT !.checked = TRUE,
                              !.violations = RequireEvidenceForNonNotFound(audit.sheet)]
    /\ UNCHANGED <<jobVars, ex, gd, rag>>

\* the verifier is run on the sheet
VerifyFactSheet ==
    /\ audit.pc = "sheet"
    /\ audit' = [audit EXCEPT !.pc = "verified",
                              !.blocked_issues = RunVerifierFactsheet(audit.sheet)]
    /\ UNCHANGED <<jobVars, ex, gd, rag>>

InitVerifier ==
    /\ backend = "file"
    /\ jobs = [j \in JobIds |-> NoJob]
    /\ index = [k \in AllKeys |-> 0]
    /\ nextId = 1
    /\ projects = {}
    /\ files = NoFiles
    /\ task = [j \in JobIds |-> IdleTask]
    /\ lastResponse = NoResponse
    /\ ex = ExIdle
    /\ gd = GdIdle
    /\ rag = RagIdle
    /\ \E sheet \in FactSheets :
         audit = [pc |-> "sheet", sheet |-> sheet, blocked_issues |-> <<>>,
                  checked |-> FALSE, violations |-> <<>>]

NextVerifier == VerifyFactSheet \/ RequireEvidence

SpecVerifier == InitVerifier /\ [][NextVerifier]_vars

\* the structured sections of a fact sheet
Sections == {"key_specs", "constraints", "differentiators"}

\* how many blocking issues of the evidence check name section[i]
EvidenceIssueCount(section, i) ==
    Cardinality({ k \in DOMAIN audit.blocked_issues :
                    audit.blocked_issues[k] = BlockingIssue("evidence", <<section, i>>) })

\* the item has a name or a value (key spec) or a statement
PopulatedItem(section, item) ==
    IF section = "key_specs" THEN item.name # <<>> \/ item.value # <<>>
    ELSE item.statement # ""

\* C15: run_verifier_factsheet gives exactly one evidence blocking issue,
\* naming the field path, for each key spec, constraint or differentiator
\* that is populated and has empty evidence_chunk_ids, and none for an item
\* that has evidence (or is not populated).
C15_OneIssuePerUnsupportedItem ==
    audit.pc = "verified" =>
        \A section \in Sections :
            \A i \in DOMAIN audit.sheet[section] :
                EvidenceIssueCount(section, i - 1) =
                    IF /\ PopulatedItem(section, audit.sheet[section][i])
                       /\ audit.sheet[section][i].evidence_chunk_ids = <<>>
                    THEN 1 ELSE 0

\* one key spec with a value and no evidence: exactly one blocking issue,
\* naming key_specs[0]
C15_Witness ==
    /\ audit.pc = "verified"
    /\ Len(audit.sheet.key_specs) = 1
    /\ audit.sheet.key_specs[1].value = Str5
    /\ audit.sheet.key_specs[1].evidence_chunk_ids = <<>>
    /\ audit.blocked_issues = <<BlockingIssue("evidence", <<"key_specs", 0>>)>>

----------------------------------------------------------------------------
(* The commands that run the verifier and write artifacts: the audit
   route, the `audit` and `content-pack` CLI commands, and the audit stage
   of the background pipeline.  Each is the sequence of its verifier call,
   its file writes and its gate, in source order. *)

MaxIssues == 2

Step(op, artifact) == [op |-> op, artifact |-> artifact]

\* run_audit (routes/audit.py): verifier, content-pack files (best
\* effort), verifier report, gate, reports
RunAuditSteps ==
    << Step("verify", "none"), Step("try_write", "content_pack"),
       Step("write", "verifier_report.md"), Step("gate", "none"),
       Step("write", "report.md"), Step("write", "report.html"),
       Step("write", "audit.json") >>

\* cli.audit: verifier, verifier report, gate, reports
CliAuditSteps ==
    << Step("verify", "none"), Step("write", "verifier_report.md"),
       Step("gate", "none"), Step("write", "report.md"),
       Step("write", "report.html"), Step("write", "audit.json") >>

\* cli.content_pack: content-pack files, verifier, verifier report, gate
CliContentPackSteps ==
    << Step("write", "content_pack"), Step("verify", "none"),
       Step("write", "verifier_report.md"), Step("gate", "none") >>

\* _run_pipeline, stage 3: verifier, verifier report, reports, content-pack
\* files (best effort); no gate
PipelineAuditSteps ==
    << Step("verify", "none"), Step("write", "verifier_report.md"),
       Step("write", "report.md"), Step("write", "report.html"),
       Step("write", "audit.json"), Step("try_write", "content_pack") >>

Commands == {"run_audit", "cli_audit", "cli_content_pack", "run_pipeline"}

StepsOf(command) ==
    CASE command = "run_audit" -> RunAuditSteps
      [] command = "cli_audit" -> CliAuditSteps
      [] command = "cli_content_pack" -> CliContentPackSteps
      [] command = "run_pipeline" -> PipelineAuditSteps

\* the artifacts downstream of the verifier
Downstream == {"report.md", "report.html", "audit.json", "content_pack"}

\* the step the command is at
AuditAt(op) ==
    /\ audit.pc = "run"
    /\ audit.step <= Len(StepsOf(audit.command))
    /\ StepsOf(audit.command)[audit.step].op = op

\* VerifierResult.has_blocked
HasBlocked(blocked_issues) == blocked_issues > 0

\* the verifier is run; it reports audit.issues blocking issues
RunVerifier ==
    /\ AuditAt("verify")
    /\ audit' = [audit EXCEPT !.step = @ + 1, !.verified = TRUE,
                              !.has_blocked = HasBlocked(audit.issues)]
    /\ UNCHANGED <<jobVars, ex, gd, rag>>

\* a file is written
WriteArtifact ==
    /\ AuditAt("write") \/ AuditAt("try_write")
    /\ audit' = [audit EXCEPT !.step = @ + 1,
                              !.written = @ \cup {StepsOf(audit.command)[audit.step].artifact}]
    /\ UNCHANGED <<jobVars, ex, gd, rag>>

\* a best-effort write raises: the except clause logs a warning
WriteFails ==
    /\ AuditAt("try_write")
    /\ audit' = [audit EXCEPT !.step = @ + 1]
    /\ UNCHANGED <<jobVars, ex, gd, rag>>

\* `if verifier_result.has_blocked and not allow_unsafe`: HTTP 400 / Exit(1)
GateHalts ==
    /\ AuditAt("gate")
    /\ audit.has_blocked /\ ~audit.allow_unsafe
    /\ audit' = [audit EXCEPT !.pc = "halted"]
    /\ UNCHANGED <<jobVars, ex, gd, rag>>

GatePasses ==
    /\ AuditAt("gate")
    /\ ~(audit.has_blocked /\ ~audit.allow_unsafe)
    /\ audit' = [audit EXCEPT !.step = @ + 1]
    /\ UNCHANGED <<jobVars, ex, gd, rag>>

\* the command runs off its last step
AuditDone ==
    /\ audit.pc = "run"
    /\ audit.step > Len(StepsOf(audit.command))
    /\ audit' = [audit EXCEPT !.pc = "done"]
    /\ UNCHANGED <<jobVars, ex, gd, rag>>

\* the pipeline takes no allow_unsafe
InitGate ==
    /\ backend = "file"
    /\ jobs = [j \in JobIds |-> NoJob]
    /\ index = [k \in AllKeys |-> 0]
    /\ nextId = 1
    /\ projects = {}
    /\ files = NoFiles
    /\ task = [j \in JobIds |-> IdleTask]
    /\ lastResponse = NoResponse
    /\ ex = ExIdle
    /\ gd = GdIdle
    /\ rag = RagIdle
    /\ \E command \in Commands, allow_unsafe \in BOOLEAN, issues \in 0..MaxIssues :
         /\ (command = "run_pipeline" => ~allow_unsafe)
         /\ audit = [pc |-> "run", command |-> command, allow_unsafe |-> allow_unsafe,
                     issues |-> issues, step |-> 1, verified |-> FALSE,
                     has_blocked |-> FALSE, written |-> {}]

NextGate ==
    \/ RunVerifier
    \/ WriteArtifact
    \/ WriteFails
    \/ GateHalts
    \/ GatePasses
    \/ AuditDone

SpecGate == InitGate /\ [][NextGate]_vars

\* C16: when the verifier has reported a blocking issue and allow_unsafe is
\* false, no downstream artifact (report.md, report.html, audit.json,
\* content-pack files) is written for that run, on the audit route, the CLI
\* commands and the audit stage of the pipeline.
C16_BlockedWritesNothing ==
    (audit.verified /\ audit.has_blocked /\ ~audit.allow_unsafe)
        => audit.written \cap Downstream = {}

----------------------------------------------------------------------------
(* Claims about the context builder *)

\* the chunk ids the queries returned, in the order they came back
RECURSIVE ReturnedIds(_, _, _)
ReturnedIds(store, queries, k) ==
    IF k > Len(queries) THEN <<>>
    ELSE store.results[queries[k]] \o ReturnedIds(store, queries, k + 1)

\* where `cid` was first returned
FirstReturned(returned, cid) ==
    CHOOSE i \in DOMAIN returned :
        returned[i] = cid /\ \A j \in 1..(i - 1) : returned[j] # cid

RECURSIVE OverBudgetAt(_, _, _, _, _)
OverBudgetAt(returned, chars, max_chars, i, total) ==
    IF i > Len(returned) THEN 0
    ELSE IF returned[i] \in { returned[j] : j \in 1..(i - 1) }
         THEN OverBudgetAt(returned, chars, max_chars, i + 1, total)
         ELSE IF total + chars[returned[i]] > max_chars THEN i
              ELSE Bind(total + chars[returned[i]], LAMBDA next :
                        OverBudgetAt(returned, chars, max_chars, i + 1, next))

\* C18: once a snippet would take the context past the character budget the
\* context builder stops: no chunk returned after that point, by the same
\* query or by a later one, is in the context text or in the metadata map.
C18_NothingAddedPastBudget ==
    rag.pc = "context" =>
        \E returned \in {ReturnedIds(rag.store, Queries, 1)} :
        \E over \in {OverBudgetAt(returned, rag.store.chars, rag.max_chars, 1, 0)} :
            over # 0 =>
                \A cid \in Range(rag.parts) \cup DOMAIN rag.meta_map :
                    FirstReturned(returned, cid) < over

----------------------------------------------------------------------------
(* The job store on its own: create, update and get called by a client *)

MaxStored == 1

\* the calls the client has made: the latest call, the job last passed to
\* update, what the latest get returned
StoreCalls(call, job, result) == [call |-> call, job |-> job, result |-> result]

\* the values a caller may give the mutable fields before update(job)
MutableFields ==
    [status : JobStatus, progress : {0, 100}, error_message : {"none", "error"},
     drafts : {"none", "drafts"}, metadata : {NoMeta, QueuedMeta}]

WithFields(job, f) ==
    [job EXCEPT !.status = f.status, !.progress = f.progress,
                !.error_message = f.error_message, !.drafts = f.drafts,
                !.metadata = f.metadata]

\* store.create(job) for a new job
StoreCreateCall ==
    /\ nextId <= MaxStored
    /\ \E p \in Products, r \in Requests :
         \E job \in {GenerationJob(nextId, p, IdempotencyKey(p, r), QueuedMeta)} :
            /\ StoreCreate(job)
            /\ lastResponse' = StoreCalls("create", job, NoJob)
    /\ nextId' = nextId + 1
    /\ UNCHANGED <<backend, files, projects, task, ex, gd, rag, audit>>

\* store.update(job) with a job the caller got from the store and changed
StoreUpdateCall ==
    /\ \E id \in JobIds, f \in MutableFields :
         /\ StoreGet(id) # NoJob
         /\ \E job \in {WithFields(StoreGet(id), f)} :
              /\ StoreUpdate(job)
              /\ lastResponse' = StoreCalls("update", job, NoJob)
    /\ UNCHANGED <<backend, files, index, nextId, projects, task, ex, gd, rag, audit>>

\* store.get(job.job_id) after update(job)
StoreGetCall ==
    /\ lastResponse.call = "update"
    /\ lastResponse' = [lastResponse EXCEPT !.call = "get",
                                            !.result = StoreGet(lastResponse.job.job_id)]
    /\ UNCHANGED <<backend, files, jobs, index, nextId, projects, task, ex, gd, rag, audit>>

InitStore ==
    /\ backend \in {"file", "postgres"}
    /\ jobs = [j \in JobIds |-> NoJob]
    /\ index = [k \in AllKeys |-> 0]
    /\ nextId = 1
    /\ projects = {}
    /\ files = NoFiles
    /\ task = [j \in JobIds |-> IdleTask]
    /\ lastResponse = StoreCalls("none", NoJob, NoJob)
    /\ ex = ExIdle
    /\ gd = GdIdle
    /\ rag = RagIdle
    /\ audit = AuditIdle

NextStore == StoreCreateCall \/ StoreUpdateCall \/ StoreGetCall

SpecStore == InitStore /\ [][NextStore]_vars

\* C19: after update(job), get(job.job_id) returns a record whose status,
\* progress, error_message, drafts and metadata equal those of the job
\* passed to update, also when the passed drafts or metadata are null and
\* the stored ones are not, with either store.
C19_GetReturnsWhatUpdateGot ==
    lastResponse.call = "get" =>
        /\ lastResponse.result.status = lastResponse.job.status
        /\ lastResponse.result.progress = lastResponse.job.progress
        /\ lastResponse.result.error_message = lastResponse.job.error_message
        /\ lastResponse.result.drafts = lastResponse.job.drafts
        /\ lastResponse.result.metadata = lastResponse.job.metadata

----------------------------------------------------------------------------
(* Claims about the is_factual flag *)

\* the item of the drafts that holds `field` and an is_factual flag
FlaggedItem(drafts, field) ==
    IF field = "description" THEN drafts.landing_page.benefit ELSE drafts.faq

\* C20: after run_draft_guardrails an item that carries an is_factual flag
\* (landing-page benefit, FAQ item) has is_factual = false if the pass
\* changed its text, and the is_factual value it had before the pass if its
\* text is unchanged.
C20_FactualFlagFollowsText ==
    [][gd'.runs = gd.runs + 1 =>
          \A field \in FlaggedFields :
              FlaggedItem(gd'.drafts, field).is_factual =
                  IF FieldText(gd'.drafts, field) # FieldText(gd.drafts, field)
                  THEN FALSE ELSE FlaggedItem(gd.drafts, field).is_factual]_vars

\* an answer marked factual stated "2g" against a key spec of 5 g: the pass
\* rewrote it and took the flag down
C20_Witness ==
    /\ gd.runs = 1
    /\ gd.sheet.key_specs = <<KeySpec(Str5, StrG)>>
    /\ Len(gd.warnings) = 1
    /\ gd.warnings[1].field_path = "faq[0].answer"
    /\ gd.warnings[1].original_snippet = <<"2", "g">>
    /\ gd.drafts.faq.answer = <<DATASHEET>>
    /\ ~gd.drafts.faq.is_factual

----------------------------------------------------------------------------
(* Claims about the competitor-brand scan *)

\* the proper nouns of `text` the scan does not skip, left to right
FlaggedWords(text, env) ==
    SelectSeq(FindIter("proper_noun", text), LAMBDA word : ~SkippedWord(word, env))

\* `t` from position i on, each flagged proper noun replaced where it stands
RECURSIVE ReplacedInPlace(_, _, _)
ReplacedInPlace(t, i, env) ==
    IF i > Len(t) THEN <<>>
    ELSE Bind(ProperNounEnd(t, i), LAMBDA e :
           IF e = 0 THEN <<t[i]>> \o ReplacedInPlace(t, i + 1, env)
           ELSE IF SkippedWord(SubSeq(t, i, e), env)
                THEN SubSeq(t, i, e) \o ReplacedInPlace(t, e + 1, env)
                ELSE <<COMPETITOR_REMOVED>> \o ReplacedInPlace(t, e + 1, env))

\* the snippets of the competitor_brand warnings, in the order recorded
BrandSnippets(warnings) ==
    LET brand == SelectSeq(warnings, LAMBDA w : w.category = "competitor_brand")
    IN  [i \in DOMAIN brand |-> brand[i].original_snippet]

\* C21: a call of run_draft_guardrails replaces, in generic_alternative,
\* every capitalized token that is not in the noun stoplist, not part of
\* the product name and not in the source text by '[competitor name
\* removed]' at the place where the token stands, records exactly one
\* competitor_brand warning for each, and leaves no such token in the field.
C21_CompetitorTokenReplacedInPlace ==
    [][FirstRun =>
          \E env \in {Env(gd.sheet, gd.source_text)} :
          \E c \in {CleanTextField(gd.drafts.comparisons.generic_alternative,
                        "comparisons[0].dimensions[0].generic_alternative", env).text} :
              /\ gd'.drafts.comparisons.generic_alternative = ReplacedInPlace(c, 1, env)
              /\ BrandSnippets(gd'.warnings) = FlaggedWords(c, env)
              /\ FlaggedWords(gd'.drafts.comparisons.generic_alternative, env) = <<>>
      ]_vars

----------------------------------------------------------------------------
(* Claims about the evidence checker of the extractor *)

\* how many of the returned violations name section[i]
ViolationCount(section, i) ==
    Cardinality({ k \in DOMAIN audit.violations : audit.violations[k] = <<section, i>> })

\* the items of the sheet that are populated and have no evidence
ItemsWithoutEvidence ==
    UNION { { <<section, i - 1>> :
                i \in { k \in DOMAIN audit.sheet[section] :
                          /\ PopulatedItem(section, audit.sheet[section][k])
                          /\ audit.sheet[section][k].evidence_chunk_ids = <<>> } } :
            section \in Sections }

\* C22: require_evidence_for_non_not_found returns exactly one violation
\* for each key spec with a name or a value and each constraint or
\* differentiator with a statement whose evidence_chunk_ids is empty, and
\* nothing else: the list is empty when the sheet has no such item.  (The
\* function is total on fact sheets: it has no raising statement.)
C22_OneViolationPerItemWithoutEvidence ==
    audit.pc \in {"sheet", "verified"} /\ audit.checked =>
        /\ \A item \in ItemsWithoutEvidence : ViolationCount(item[1], item[2]) = 1
        /\ Len(audit.violations) = Cardinality(ItemsWithoutEvidence)

\* an unpopulated key spec and a constraint with a statement, neither with
\* evidence: the one violation names constraints[0]
C22_Witness ==
    /\ audit.pc \in {"sheet", "verified"} /\ audit.checked
    /\ Len(audit.sheet.key_specs) = 1
    /\ audit.sheet.key_specs[1].name = <<>> /\ audit.sheet.key_specs[1].value = <<>>
    /\ audit.sheet.key_specs[1].evidence_chunk_ids = <<>>
    /\ Len(audit.sheet.constraints) = 1
    /\ audit.sheet.constraints[1] = [statement |-> "s", evidence_chunk_ids |-> <<>>]
    /\ audit.violations = << <<"constraints", 0>> >>

----------------------------------------------------------------------------
(* The contradiction check on key specs that share a name *)

\* key specs with evidence: no name, "Flow" or "flow "; the value 5 with
\* the unit g apart from it or in it; with or without conditions
NamedSpecItems ==
    [name : {<<>>, StrFlow, <<"f", "l", "o", "w", " ">>},
     value : {Str5, <<"5", "g">>}, unit : {<<>>, StrG},
     conditions : {<<>>, <<"c">>}, evidence_chunk_ids : {<<"c1">>}]

\* a fact sheet of at most MaxItems such key specs
InitContradiction ==
    /\ backend = "file"
    /\ jobs = [j \in JobIds |-> NoJob]
    /\ index = [k \in AllKeys |-> 0]
    /\ nextId = 1
    /\ projects = {}
    /\ files = NoFiles
    /\ task = [j \in JobIds |-> IdleTask]
    /\ lastResponse = NoResponse
    /\ ex = ExIdle
    /\ gd = GdIdle
    /\ rag = RagIdle
    /\ \E key_specs \in UNION { ListsOf(NamedSpecItems, n) : n \in 0..MaxItems } :
         audit = [pc |-> "sheet",
                  sheet |-> [key_specs |-> key_specs, constraints |-> <<>>,
                             differentiators |-> <<>>],
                  blocked_issues |-> <<>>, checked |-> FALSE, violations |-> <<>>]

SpecContradiction == InitContradiction /\ [][NextVerifier]_vars

\* the blocking issues name `name` as a contradictory spec
ReportedContradictory(name) ==
    \E k \in DOMAIN audit.blocked_issues :
        audit.blocked_issues[k] = BlockingIssue("contradiction", <<name>>)

\* C23: run_verifier_factsheet reports a blocking 'Contradictory spec'
\* issue for a name exactly when two key specs have that name after
\* trimming and lower-casing and have different values; key specs that
\* share a name and a value produce no such issue.
C23_ContradictionIffValuesDiffer ==
    audit.pc = "verified" =>
        \A name \in { SpecKey(audit.sheet.key_specs[i]) : i \in DOMAIN audit.sheet.key_specs }
                        \ {<<>>} :
            ReportedContradictory(name) <=>
                \E i, j \in DOMAIN audit.sheet.key_specs :
                    /\ SpecKey(audit.sheet.key_specs[i]) = name
                    /\ SpecKey(audit.sheet.key_specs[j]) = name
                    /\ audit.sheet.key_specs[i].value # audit.sheet.key_specs[j].value

----------------------------------------------------------------------------
(* The verifier pass over audit findings: run_verifier_audit_pipeline with
   an empty fact sheet, whose blocked_issues are those of
   _check_unsupported_recommendations. *)

MaxFindings == 2

StrNotSupported ==
    <<"n", "o", "t", " ", "s", "u", "p", "p", "o", "r", "t", "e", "d">>

\* critic_note: None is <<>>, a string s is <<s>>; the strings are "", "ok"
\* and "Not supported"
CriticNotes == { <<>>, << <<>> >>, << <<"o", "k">> >>, << <<"N">> \o Tail(StrNotSupported) >> }

\* the fields of an AuditFinding the check reads
AuditFindings ==
    [is_grounded : BOOLEAN, evidence : {<<>>, <<"e1">>}, critic_verified : BOOLEAN,
     critic_note : CriticNotes]

\* a test that compares the note as it is written
NoteSaysNotSupportedAsWritten(note) ==
    note # <<>> /\ note[1] # <<>> /\ IsSubstring(StrNotSupported, note[1])

\* `f.critic_note and "not supported" in (f.critic_note or "").lower()`
NoteSaysNotSupported(note) ==
    note # <<>> /\ note[1] # <<>> /\ IsSubstring(StrNotSupported, Lower(note[1]))

\* the loop of _check_unsupported_recommendations from findings[i] on; an
\* issue names the finding by its place in the list
RECURSIVE UnsupportedFrom(_, _)
UnsupportedFrom(findings, i) ==
    IF i > Len(findings) THEN <<>>
    ELSE Bind(findings[i], LAMBDA f :
           (IF f.is_grounded THEN <<>>
            ELSE IF f.evidence = <<>> /\ ~f.critic_verified
                 THEN <<BlockingIssue("not supported by evidence or critic", <<i>>)>>
            ELSE IF /\ f.evidence = <<>> /\ f.critic_verified
                    /\ NoteSaysNotSupported(f.critic_note)
                 THEN <<BlockingIssue("critic indicates not supported", <<i>>)>>
            ELSE <<>>)
           \o UnsupportedFrom(findings, i + 1))

CheckUnsupportedRecommendations(findings) == UnsupportedFrom(findings, 1)

\* run_verifier_audit_pipeline(ModelsProductFactSheet(), findings, {})
RunVerifierAuditPipeline ==
    /\ audit.pc = "findings"
    /\ audit' = [audit EXCEPT !.pc = "verified",
                   !.blocked_issues = CheckUnsupportedRecommendations(audit.findings)]
    /\ UNCHANGED <<jobVars, ex, gd, rag>>

InitFindings ==
    /\ backend = "file"
    /\ jobs = [j \in JobIds |-> NoJob]
    /\ index = [k \in AllKeys |-> 0]
    /\ nextId = 1
    /\ projects = {}
    /\ files = NoFiles
    /\ task = [j \in JobIds |-> IdleTask]
    /\ lastResponse = NoResponse
    /\ ex = ExIdle
    /\ gd = GdIdle
    /\ rag = RagIdle
    /\ \E findings \in UNION { ListsOf(AuditFindings, n) : n \in 0..MaxFindings } :
         audit = [pc |-> "findings", findings |-> findings, blocked_issues |-> <<>>]

NextFindings == RunVerifierAuditPipeline

SpecFindings == InitFindings /\ [][NextFindings]_vars

\* how many blocking issues name findings[i]
FindingIssueCount(i) ==
    Cardinality({ k \in DOMAIN audit.blocked_issues : audit.blocked_issues[k].subject = <<i>> })

\* C24 as stated: the verifier blocks a recommendation exactly when the
\* finding is not source-grounded, has no evidence and has critic_verified
\* false; a finding with evidence, with critic_verified true or that is
\* source-grounded gives no blocking issue.
C24_BlockedIffUnverified ==
    audit.pc = "verified" =>
        \A i \in DOMAIN audit.findings :
            FindingIssueCount(i) =
                IF /\ ~audit.findings[i].is_grounded
                   /\ audit.findings[i].evidence = <<>>
                   /\ ~audit.findings[i].critic_verified
                THEN 1 ELSE 0

\* C24, amended: the verifier blocks a recommendation, with one issue,
\* exactly when the finding is not source-grounded, has no evidence, and
\* either has critic_verified false or has a critic note that contains
\* "not supported" in any letter case; a finding with evidence or that is
\* source-grounded gives no blocking issue.
C24_BlockedIffUnverifiedOrDenied ==
    audit.pc = "verified" =>
        \A i \in DOMAIN audit.findings :
            FindingIssueCount(i) =
                IF /\ ~audit.findings[i].is_grounded
                   /\ audit.findings[i].evidence = <<>>
                   /\ \/ ~audit.findings[i].critic_verified
                      \/ /\ audit.findings[i].critic_note \notin {<<>>, << <<>> >>}
                         /\ IsSubstring(StrNotSupported,
                                        Lower(audit.findings[i].critic_note[1]))
                THEN 1 ELSE 0

\* a generated recommendation without evidence that the critic did not
\* verify is blocked, the same one verified with the note "ok" is not
C24_Witness ==
    /\ audit.pc = "verified"
    /\ Len(audit.findings) = 2
    /\ audit.findings[1] = [is_grounded |-> FALSE, evidence |-> <<>>,
                            critic_verified |-> FALSE, critic_note |-> <<>>]
    /\ audit.findings[2] = [is_grounded |-> FALSE, evidence |-> <<>>,
                            critic_verified |-> TRUE, critic_note |-> << <<"o", "k">> >>]
    /\ audit.blocked_issues =
           <<BlockingIssue("not supported by evidence or critic", <<1>>)>>

----------------------------------------------------------------------------
(* Claims about what the drivers persist *)

\* C26: a job record whose drafts field is set has status SUCCEEDED; a
\* QUEUED, RUNNING or FAILED record holds no drafts (get_generation_job
\* hands the drafts of the record back as they are stored).
C26_DraftsOnlyWhenSucceeded ==
    \A j \in JobIds : jobs[j].drafts # "none" => jobs[j].status = "succeeded"

\* one pipeline job has failed at its last step, after the content stage
\* was begun, and another job has succeeded and holds drafts
C26_Witness ==
    \E i, j \in JobIds :
        /\ jobs[i].status = "failed" /\ jobs[i].error_message = "content"
        /\ jobs[i].drafts = "none"
        /\ jobs[j].status = "succeeded" /\ jobs[j].drafts = "drafts"


\* C27: once the driver of a job has returned or died, the persisted
\* status of the job is SUCCEEDED or FAILED: no job stays QUEUED or RUNNING
\* behind a driver that is no longer running (every external call of the
\* driver returns or raises, so the driver does come to its end).
C27_EndedDriverLeavesTerminalJob ==
    \A j \in JobIds :
        (jobs[j] # NoJob /\ task[j].pc \in {"done", "crashed"})
            => jobs[j].status \in Terminal


\* C29 as stated: the persisted progress of a job never decreases from one
\* update of the job to the next, the update that marks it FAILED
\* included, in both drivers.
C29_ProgressNeverDecreases ==
    [][\A j \in JobIds :
         jobs[j] # NoJob => jobs'[j].progress >= jobs[j].progress]_vars

\* C29, amended: the persisted progress of a job never decreases from one
\* update of the job to the next, in both drivers, but for one update: when
\* _run_generation_task finds the project directory missing it marks the
\* job FAILED with progress 0, after the progress 10 it wrote at its start.
C29_ProgressDecreasesOnlyOnMissingProject ==
    [][\A j \in JobIds :
         (jobs[j] # NoJob /\ jobs'[j].progress < jobs[j].progress)
            => /\ task[j].kind = "generate"
               /\ jobs[j].progress = 10
               /\ jobs'[j].progress = 0
               /\ jobs'[j].status = "failed"
               /\ jobs'[j].error_message = "project_not_found"]_vars

\* a generation job failed on the missing project directory with progress
\* 0, and a pipeline job failed at a later step with the progress it had
C29_Witness ==
    \E i, j \in JobIds :
        /\ jobs[i].status = "failed" /\ jobs[i].error_message = "project_not_found"
        /\ jobs[i].progress = 0
        /\ jobs[j].status = "failed" /\ jobs[j].error_message = "extract"
        /\ jobs[j].progress = 18


\* the pipeline driver of j takes its content step, which begins with
\* load_factsheet(factsheet_path), and ends SUCCEEDED
ContentStepDone(j) ==
    /\ PipeAt(j) /\ task[j].step = LastStep
    /\ task'[j].pc = "done"
    /\ jobs'[j].status = "succeeded"

\* C28: the content-generation stage of a pipeline job reads the fact
\* sheet that the job's own extraction stage wrote: no other job has
\* replaced factsheet.json of the project in between.
C28_ContentReadsOwnFactsheet ==
    [][\A j \in JobIds :
         ContentStepDone(j) => files[jobs[j].product_id] = j]_vars

----------------------------------------------------------------------------
(* One generate_web_content call: the five section generators, each with
   its one llm.complete call, then the guardrail pass, then the return.
   The call is one thread: a completion call is begun and the thread waits
   for it to return or raise. *)

\* an order that generates the FAQ before the landing page
GenerateOrderFaqFirst ==
    <<"faq", "landing_page", "use_case_pages", "comparisons", "seo">>

\* the section generators in the order generate_web_content calls them
GenerateOrder ==
    <<"landing_page", "faq", "use_case_pages", "comparisons", "seo">>

\* what llm.complete returns: a JSON object, a JSON array, text that is not
\* JSON, the empty string
RawKinds == {"object", "list", "malformed", "empty"}

\* `data = _parse_json(raw) if raw else {}` and the isinstance test that
\* follows: the section is built from the output when it has the type the
\* generator expects (an object for the landing page and SEO, an array for
\* the others) and from the empty default otherwise
SectionDraft(section, raw) ==
    IF raw = (IF section \in {"landing_page", "seo"} THEN "object" ELSE "list")
    THEN "generated" ELSE "default"

GenIdle(log) == [pc |-> "section", k |-> 1, log |-> log,
                 sections |-> [s \in {} |-> "none"]]

\* a section generator renders its prompt and calls llm.complete
CallCompletion ==
    /\ rag.pc = "section"
    /\ rag' = [rag EXCEPT !.pc = "waiting",
                          !.log = Append(@, <<"complete", GenerateOrder[rag.k]>>)]
    /\ UNCHANGED <<jobVars, ex, gd, audit>>

\* llm.complete returns; the generator parses the output and builds its
\* section, or _parse_json raises and the error leaves generate_web_content
CompletionReturns ==
    /\ rag.pc = "waiting"
    /\ \E raw \in RawKinds :
         IF raw = "malformed"
         THEN rag' = [rag EXCEPT !.pc = "raised",
                        !.log = Append(@, <<"returned", GenerateOrder[rag.k]>>)]
         ELSE rag' = [rag EXCEPT
                        !.pc = IF rag.k = Len(GenerateOrder) THEN "guardrails" ELSE "section",
                        !.k = @ + 1,
                        !.log = Append(@, <<"returned", GenerateOrder[rag.k]>>),
                        !.sections = [s \in DOMAIN @ \cup {GenerateOrder[rag.k]} |->
                                        IF s = GenerateOrder[rag.k]
                                        THEN SectionDraft(s, raw) ELSE @[s]]]
    /\ UNCHANGED <<jobVars, ex, gd, audit>>

\* llm.complete raises: the error leaves generate_web_content
CompletionRaises ==
    /\ rag.pc = "waiting"
    /\ rag' = [rag EXCEPT !.pc = "raised"]
    /\ UNCHANGED <<jobVars, ex, gd, audit>>

\* run_draft_guardrails(drafts, sheet, source_text)
GuardrailPass ==
    /\ rag.pc = "guardrails"
    /\ rag' = [rag EXCEPT !.pc = "return", !.log = Append(@, <<"guardrails">>)]
    /\ UNCHANGED <<jobVars, ex, gd, audit>>

\* `return drafts, metadata`
ReturnDrafts ==
    /\ rag.pc = "return"
    /\ rag' = [rag EXCEPT !.pc = "returned"]
    /\ UNCHANGED <<jobVars, ex, gd, audit>>

InitGenerate ==
    /\ backend = "file"
    /\ jobs = [j \in JobIds |-> NoJob]
    /\ index = [k \in AllKeys |-> 0]
    /\ nextId = 1
    /\ projects = {}
    /\ files = NoFiles
    /\ task = [j \in JobIds |-> IdleTask]
    /\ lastResponse = NoResponse
    /\ ex = ExIdle
    /\ gd = GdIdle
    /\ audit = AuditIdle
    /\ rag = GenIdle(<<>>)

NextGenerate ==
    \/ CallCompletion
    \/ CompletionReturns
    \/ CompletionRaises
    \/ GuardrailPass
    \/ ReturnDrafts

SpecGenerate == InitGenerate /\ [][NextGenerate]_vars

\* what a call that returns has done, in order: each section's completion
\* call and its return, then the guardrail pass
FullLog ==
    << <<"complete", "landing_page">>, <<"returned", "landing_page">>,
       <<"complete", "faq">>, <<"returned", "faq">>,
       <<"complete", "use_case_pages">>, <<"returned", "use_case_pages">>,
       <<"complete", "comparisons">>, <<"returned", "comparisons">>,
       <<"complete", "seo">>, <<"returned", "seo">>,
       <<"guardrails">> >>

\* C30: within one generate_web_content call the completion service is
\* called once per section in the order landing page, FAQ, use-case pages,
\* comparisons, SEO, each call returning before the next begins, and the
\* guardrail pass runs once, after the five sections and before the
\* return: what the call has done is always a beginning of that sequence
\* and, when the call returns drafts, the whole of it.
C30_SectionsInOrderThenGuardrails ==
    /\ Len(rag.log) <= Len(FullLog)
    /\ rag.log = SubSeq(FullLog, 1, Len(rag.log))
    /\ rag.pc = "returned" => rag.log = FullLog

\* a call has returned drafts; the FAQ output was not an array and the
\* section came out empty
C30_Witness ==
    /\ rag.pc = "returned"
    /\ rag.log = FullLog
    /\ rag.sections["faq"] = "default"
    /\ rag.sections["seo"] = "generated"

====
